---- MODULE Spec2Model ----
(***************************************************************************)
(* A model of pysqream's protocol engine (src/pysqream/dbapi.py): the      *)
(* Connection object, its SQSocket transport, the statement life cycle     *)
(* (execute, executemany, the fetch and close calls) and the column       *)
(* packing used on the insert path.                                        *)
(*                                                                         *)
(* A method of the source is an operator from a machine record to a        *)
(* machine record.  The machine record m holds the Connection object       *)
(* (m.self), its socket (m.s), the server's side of the conversation       *)
(* (m.srv), the class attribute base_conn_open (m.bco), the transport      *)
(* events of the running call (m.wire), the exception raised so far        *)
(* (m.exc, "none" while the call is running normally), the value returned  *)
(* (m.ret) and the history needed to state the properties (m.hist).  A     *)
(* raised exception leaves the attributes assigned before it in place, as  *)
(* in Python, and every later step of the call is skipped.                 *)
(*                                                                         *)
(* The variable bench holds a component exercised on its own, outside a    *)
(* session: the worker pool of ColumnBuffer.pack_columns, the read loop of *)
(* SQSocket.receive, and the column and calendar codecs.  It is empty      *)
(* while the session runs.                                                 *)
(***************************************************************************)
EXTENDS Integers, Sequences, FiniteSets, TLC

VARIABLES self, s, srv, base_conn_open, wire, last, hist, bench

vars == <<self, s, srv, base_conn_open, wire, last, hist, bench>>

-----------------------------------------------------------------------------
(* Bounds of the model.                                                    *)

\* the server hands out statement ids 1..MaxStmts
MaxStmts == 2
\* ROWS_PER_FLUSH is 100000 in the source (line 45); it is scaled down here
\* so that a batch of a few rows is split into several flush chunks
ROWS_PER_FLUSH == 2

-----------------------------------------------------------------------------
(* Program constants.                                                      *)

PROTOCOL_VERSION == 7
\* the default of Connection.__init__ and connect
reconnect_attempts == 3
DEFAULT_CHUNKSIZE == 0
FETCH_MANY_DEFAULT == 1

-----------------------------------------------------------------------------
(* Text and bytes.  A text is a sequence of one-character strings, a byte  *)
(* string a sequence of numbers 0..255.                                    *)

Min(a, b) == IF a <= b THEN a ELSE b

RECURSIVE Pow2(_)
Pow2(n) == IF n = 0 THEN 1 ELSE 2 * Pow2(n - 1)

RECURSIVE Flatten(_)
Flatten(ss) == IF ss = <<>> THEN <<>> ELSE Head(ss) \o Flatten(Tail(ss))

RECURSIVE SumSeq(_)
SumSeq(ns) == IF ns = <<>> THEN 0 ELSE Head(ns) + SumSeq(Tail(ns))

\* Python's  expected in response  on strings
Contains(response, expected) ==
    \E i \in 0..(Len(response) - Len(expected)) :
        SubSeq(response, i + 1, i + Len(expected)) = expected

\* Python's  seq[:n]  and  seq[n:]  for n >= 0
Take(seq, n) == SubSeq(seq, 1, Min(n, Len(seq)))
Drop(seq, n) == SubSeq(seq, Min(n, Len(seq)) + 1, Len(seq))

\* struct.pack of one integer of w bytes, little endian, two's complement
RECURSIVE LE(_, _)
LE(v, w) == IF w = 0 THEN <<>> ELSE <<v % 256>> \o LE(v \div 256, w - 1)

\* struct.unpack / memoryview.cast of w bytes as an unsigned integer
RECURSIVE FromLE(_)
FromLE(bs) == IF bs = <<>> THEN 0 ELSE Head(bs) + 256 * FromLE(Tail(bs))

\* the same bytes read as a signed integer.  Bytes beyond the fourth that
\* only extend the sign are dropped first, which leaves the value unchanged
\* and keeps the sum within 32 bits for the 8-byte values of the model
RECURSIVE FromLESigned(_)
FromLESigned(bs) ==
    LET w    == Len(bs)
        top  == bs[w]
    IN  IF w > 4 /\ ((top = 0 /\ bs[w - 1] < 128) \/ (top = 255 /\ bs[w - 1] >= 128))
        THEN FromLESigned(SubSeq(bs, 1, w - 1))
        ELSE FromLE(SubSeq(bs, 1, w - 1))
             + (IF top >= 128 THEN top - 256 ELSE top) * Pow2(8 * (w - 1))

STATEMENT_PREPARED ==
    <<"s","t","a","t","e","m","e","n","t","P","r","e","p","a","r","e","d">>

PUT_ACK ==
    <<"{","\"","p","u","t","t","e","d","\"",":","\"","p","u","t","t","e","d","\"","}">>

-----------------------------------------------------------------------------
(* Transport events and control messages.                                  *)

\* one event on the transport: k is "send" (a control message sent by
\* _send_string), "sendbin" (raw bytes sent by SQSocket.send), "resp"
\* (get_response), "recv" (SQSocket.receive of arg[1] bytes), "reconnect"
\* (SQSocket.reconnect to <<ip, port>>) or "close" (SQSocket.close)
Ev(k, t, arg) == [k |-> k, t |-> t, arg |-> arg]

Raise(m, e, msg) == [m EXCEPT !.exc = e, !.msg = msg]

Running(m) == m.exc = "none"

\* SQSocket.send: a closed socket refuses the send, and so does one whose
\* connection is lost in the way the sender notices (m.s.lost = "send")
send(m, k, t, arg) ==
    IF ~Running(m) THEN m
    ELSE IF ~m.s.open THEN Raise(m, "OSError", "Bad file descriptor")
    ELSE IF m.s.lost = "send" THEN Raise(m, "BrokenPipeError", "Broken pipe")
    ELSE [m EXCEPT !.wire = Append(@, Ev(k, t, arg))]

\* the read of a lost connection returns 0 bytes (lines 278-279)
Interrupted(m) ==
    Raise(m, "ConnectionRefusedError",
          "SQreamd connection interrupted - 0 returned by socket")

\* SQSocket.receive(byte_num)
receive(m, byte_num) ==
    IF ~Running(m) THEN m
    ELSE IF ~m.s.open THEN Raise(m, "OSError", "Bad file descriptor")
    ELSE IF m.s.lost # "no" THEN Interrupted(m)
    ELSE [m EXCEPT !.wire = Append(@, Ev("recv", "", <<byte_num>>))]

\* SQSocket.get_response: header and payload of one reply
get_response(m) ==
    IF ~Running(m) THEN m
    ELSE IF ~m.s.open THEN Raise(m, "OSError", "Bad file descriptor")
    ELSE IF m.s.lost # "no" THEN Interrupted(m)
    ELSE [m EXCEPT !.wire = Append(@, Ev("resp", "", <<>>))]

\* A 64-bit integer is kept as its two's complement bit pattern in four
\* 16-bit limbs, the least significant first: the lengths of a header go
\* beyond the 32 bits of the model's integers.  Int64 is the pattern of a
\* non-negative integer of the model
Int64(n) == <<n % 65536, n \div 65536, 0, 0>>

\* struct.pack('q', v): eight bytes, little endian
pack_q(limbs) ==
    [i \in 1..8 |-> IF i % 2 = 1 THEN limbs[(i + 1) \div 2] % 256
                    ELSE limbs[i \div 2] \div 256]

\* struct.unpack('q', bs)[0]
unpack_q(bs) == [k \in 1..4 |-> bs[2 * k - 1] + 256 * bs[2 * k]]

\* a header whose length field is packed as a 32-bit integer
generate_message_header_32(data_length, is_text_msg) ==
    <<PROTOCOL_VERSION, IF is_text_msg THEN 1 ELSE 2>>
    \o pack_q(<<data_length[1], data_length[2], 0, 0>>)

\* SQSocket.generate_message_header; data_length is a 64-bit integer
generate_message_header(data_length, is_text_msg) ==
    <<PROTOCOL_VERSION, IF is_text_msg THEN 1 ELSE 2>> \o pack_q(data_length)

\* lines 293-299 of get_response: whether the header's protocol is accepted,
\* and the length of the message that follows
protocol_accepted(header) == header[1] \in {6, 7}

message_len(header) == unpack_q(SubSeq(header, 3, 10))

\* a faulty validate_response: every response is accepted
validate_response_lenient(m, response, expected) == m

\* SQSocket.validate_response
validate_response(m, response, expected) ==
    IF ~Running(m) THEN m
    ELSE IF ~Contains(response, expected)
    THEN Raise(m, "Exception", "expected response but got")
    ELSE m

\* SQSocket.reconnect: close, then connect to (ip or self.ip, port or self.port)
reconnect(m, ip, port) ==
    IF ~Running(m) THEN m
    ELSE LET to_ip   == IF ip # 0 THEN ip ELSE m.s.ip
             to_port == IF port # 0 THEN port ELSE m.s.port
         IN  [m EXCEPT !.s.open = TRUE,
                       !.s.lost = "no",
                       !.s.peer = <<to_ip, to_port>>,
                       !.wire = Append(@, Ev("reconnect", "", <<to_ip, to_port>>))]

\* Connection._send_string
_send_string(m, t, arg, wait) ==
    LET m1 == send(m, "send", t, arg)
    IN  IF wait THEN get_response(m1) ELSE m1

-----------------------------------------------------------------------------
(* Calendar codec.                                                         *)

\* date_tuple_to_int without the leap days
date_tuple_to_int_no_leap(year, month, day) ==
    LET mth == (month + 9) % 12
        yr  == year - (mth \div 10)
    IN  365 * yr + ((mth * 306 + 5) \div 10) + (day - 1)

\* date_tuple_to_int
date_tuple_to_int(year, month, day) ==
    LET mth == (month + 9) % 12
        yr  == year - (mth \div 10)
    IN  365 * yr + (yr \div 4) - (yr \div 100) + (yr \div 400)
        + ((mth * 306 + 5) \div 10) + (day - 1)

\* sq_date_to_tuple.  The first quotient, (10000 * d + 14780) // 3652425 in the
\* source, is computed with numerator and denominator divided by 25, which
\* keeps it within 32 bits for every date up to year 9999:
\* (400 * d + 591.2) // 146097 = (400 * d + 591) // 146097, as 400 * d + 591
\* is an integer
sq_date_to_tuple(sqream_date) ==
    LET year0 == (400 * sqream_date + 591) \div 146097
        im2a  == sqream_date - (365 * year0 + (year0 \div 4) - (year0 \div 100)
                                + (year0 \div 400))
        year1 == IF im2a < 0 THEN year0 - 1 ELSE year0
        im2   == IF im2a < 0
                 THEN sqream_date - (365 * year1 + (year1 \div 4)
                                     - (year1 \div 100) + (year1 \div 400))
                 ELSE im2a
        im3   == (100 * im2 + 52) \div 3060
    IN  << year1 + ((im3 + 2) \div 12),
           ((im3 + 2) % 12) + 1,
           im2 - ((im3 * 306 + 5) \div 10) + 1 >>

-----------------------------------------------------------------------------
(* Values of a column.  A cell is None, an int, a str (its code points) or *)
(* a date (year, month, day).                                              *)

NoneCell == [ty |-> "None", v |-> 0]
IntCell(n) == [ty |-> "int", v |-> n]
StrCell(cps) == [ty |-> "str", v |-> cps]
DateCell(ymd) == [ty |-> "date", v |-> ymd]

\* str.encode('utf8') of one code point (below 65536)
Utf8(cp) ==
    IF cp < 128 THEN <<cp>>
    ELSE IF cp < 2048 THEN <<192 + (cp \div 64), 128 + (cp % 64)>>
    ELSE <<224 + (cp \div 4096), 128 + ((cp \div 64) % 64), 128 + (cp % 64)>>

\* str.encode('utf8')
RECURSIVE encode_utf8(_)
encode_utf8(cps) ==
    IF cps = <<>> THEN <<>> ELSE Utf8(Head(cps)) \o encode_utf8(Tail(cps))

\* bytes.decode('utf8') of well-formed bytes
RECURSIVE decode_utf8(_)
decode_utf8(bs) ==
    IF bs = <<>> THEN <<>>
    ELSE IF bs[1] < 128 THEN <<bs[1]>> \o decode_utf8(Drop(bs, 1))
    ELSE IF bs[1] < 224
    THEN <<(bs[1] - 192) * 64 + (bs[2] - 128)>> \o decode_utf8(Drop(bs, 2))
    ELSE <<(bs[1] - 224) * 4096 + (bs[2] - 128) * 64 + (bs[3] - 128)>>
         \o decode_utf8(Drop(bs, 3))

\* Python's  seq[start:end]
Slice(seq, start, end) ==
    IF start >= Min(end, Len(seq)) THEN <<>>
    ELSE SubSeq(seq, start + 1, Min(end, Len(seq)))

\* type_to_letter with the width struct gives each letter; 0 for the text types
TypeWidth(col_type) ==
    CASE col_type \in {"ftBool", "ftUByte"} -> 1
      [] col_type = "ftShort" -> 2
      [] col_type \in {"ftInt", "ftDate"} -> 4
      [] col_type \in {"ftLong", "ftDateTime"} -> 8
      [] OTHER -> 0

\* memoryview.cast / struct.unpack of one value; a bool (letter '?') is
\* written as the int it equals, True as 1 and False as 0
FromBytes(bs, col_type) ==
    IF col_type = "ftBool" THEN (IF FromLE(bs) # 0 THEN 1 ELSE 0)
    ELSE IF col_type = "ftUByte" THEN FromLE(bs) ELSE FromLESigned(bs)

\* memoryview.cast(letter): the bytes as a list of integers of width w
Cast(bs, col_type, w) ==
    [i \in 1..(Len(bs) \div w) |-> FromBytes(SubSeq(bs, (i - 1) * w + 1, i * w), col_type)]

\* bool(value), which struct.pack takes under the letter '?'
Truthy(cell) ==
    CASE cell.ty = "None" -> FALSE
      [] cell.ty = "int" -> cell.v # 0
      [] cell.ty = "str" -> cell.v # <<>>
      [] OTHER -> TRUE

\* whether struct.pack accepts the cell under the type's letter; '?' takes
\* any object
StructAccepts(cell, col_type) ==
    \/ col_type = "ftBool"
    \/ /\ cell.ty = "int"
       /\ col_type = "ftUByte" => cell.v \in 0..255
       /\ col_type = "ftShort" => cell.v \in (0 - 32768)..32767

\* datetime_tuple_to_long that adds the microseconds undivided
datetime_tuple_to_long_micro(year, month, day, hour, minute, second, msecond) ==
    << date_tuple_to_int(year, month, day),
       hour * 3600 * 1000 + minute * 60 * 1000 + second * 1000 + msecond >>

\* datetime_tuple_to_long.  The long (date_int << 32) + time_int is kept as
\* the pair <<high 32 bits, low 32 bits>>; time_int stays below 2^31 for
\* every time of day, so it never carries into the high half
datetime_tuple_to_long(year, month, day, hour, minute, second, msecond) ==
    << date_tuple_to_int(year, month, day),
       hour * 3600 * 1000 + minute * 60 * 1000 + second * 1000
       + (msecond \div 1000) >>

\* sq_datetime_to_tuple, of the pair <<sqream_datetime >> 32,
\* sqream_datetime & 0xffffffff>>
sq_datetime_to_tuple(sqream_datetime) ==
    LET date_part == sq_date_to_tuple(sqream_datetime[1])
        time_part == sqream_datetime[2]
    IN  << date_part[1], date_part[2], date_part[3],
           ((time_part \div 1000) \div 60) \div 60,
           ((time_part \div 1000) \div 60) % 60,
           (time_part \div 1000) % 60,
           time_part % 1000 >>

DateTimeCell(t7) == [ty |-> "datetime", v |-> t7]

-----------------------------------------------------------------------------
(* Columnar codec: packing for insert.                                     *)

SupportedTypes ==
    {"ftBool", "ftUByte", "ftShort", "ftInt", "ftLong", "ftDate", "ftDateTime",
     "ftVarchar", "ftBlob"}

\* the values of an ftBlob column left as code points, one unit each
encoded_col_code_points(col) ==
    [i \in 1..Len(col) |-> IF col[i].ty = "None" THEN <<>> ELSE col[i].v]

\* lines 446-448: the encoded values of an ftBlob column, None as b''
encoded_col(col) ==
    [i \in 1..Len(col) |->
        IF col[i].ty = "None" THEN <<>> ELSE encode_utf8(col[i].v)]

\* whether _pack_column packs the column without raising: the values suit
\* the type, the type is known, and a length array is asked for only where
\* encoded_col is bound (ftBlob)
pack_accepts(col, col_type, size, nullable, tvc) ==
    /\ col_type \in SupportedTypes
    /\ tvc => col_type = "ftBlob"
    /\ \A i \in 1..Len(col) :
          \/ col[i].ty = "None"
          \/ CASE col_type = "ftBlob" -> col[i].ty = "str"
               [] col_type = "ftVarchar" ->
                      /\ col[i].ty = "str"
                      /\ \A k \in 1..Len(col[i].v) : col[i].v[k] < 128
               [] col_type = "ftDate" -> col[i].ty \in {"date", "datetime"}
               [] col_type = "ftDateTime" -> col[i].ty = "datetime"
               [] OTHER -> StructAccepts(col[i], col_type)

\* a bounded text value padded with NUL bytes
varchar_field_nul_padded(cell, size) ==
    LET cut == Take(IF cell.ty = "None" THEN <<>> ELSE cell.v, size)
    IN  cut \o [i \in 1..(size - Len(cut)) |-> 0]

\* lines 474-475: one bounded text value, cut to size and padded with spaces
varchar_field(cell, size) ==
    LET cut == Take(IF cell.ty = "None" THEN <<>> ELSE cell.v, size)
    IN  cut \o [i \in 1..(size - Len(cut)) |-> 32]

\* a fixed-width encoding with -1 in the place of None
fixed_field_none_as_minus_one(cell, col_type) ==
    CASE cell.ty = "None" -> LE(0 - 1, TypeWidth(col_type))
      [] col_type = "ftDate" ->
             LE(date_tuple_to_int(cell.v[1], cell.v[2], cell.v[3]), 4)
      [] col_type = "ftDateTime" ->
             LE(datetime_tuple_to_long(cell.v[1], cell.v[2], cell.v[3],
                    cell.v[4], cell.v[5], cell.v[6], cell.v[7])[2], 4)
             \o LE(date_tuple_to_int(cell.v[1], cell.v[2], cell.v[3]), 4)
      [] col_type = "ftBool" -> <<IF cell.v # 0 THEN 1 ELSE 0>>
      [] OTHER -> LE(cell.v, TypeWidth(col_type))

\* the fixed-width encoding of one value, None replaced by its placeholder
\* (lines 482-501, 521)
fixed_field(cell, col_type) ==
    CASE col_type = "ftDate" ->
             LE(IF cell.ty = "None" THEN date_tuple_to_int(1900, 1, 1)
                ELSE date_tuple_to_int(cell.v[1], cell.v[2], cell.v[3]), 4)
      [] col_type = "ftDateTime" ->
             LET long == IF cell.ty = "None"
                         THEN datetime_tuple_to_long(1900, 1, 1, 0, 0, 0, 0)
                         ELSE datetime_tuple_to_long(cell.v[1], cell.v[2], cell.v[3],
                                  cell.v[4], cell.v[5], cell.v[6], cell.v[7])
             IN  LE(long[2], 4) \o LE(long[1], 4)
      [] col_type = "ftBool" -> <<IF Truthy(cell) THEN 1 ELSE 0>>
      [] OTHER -> LE(IF cell.ty = "None" THEN 0 ELSE cell.v, TypeWidth(col_type))

\* line 387: the bytes a row of a column of size 0 (variable text) gets in
\* the staging buffer; 104 in the source, scaled with ROWS_PER_FLUSH
TEXT_ROW_BYTES == 8

\* line 387: the length of the staging buffer _pack_column maps
buf_map_len(size, nullable) ==
    ((IF nullable THEN 1 ELSE 0) + (IF size # 0 THEN size ELSE TEXT_ROW_BYTES))
        * ROWS_PER_FLUSH

\* a faulty needed_buf_size: the text alone, without the 5 bytes a row
needed_buf_size_text_only(col) == Len(Flatten(encoded_col(col)))

\* line 454: needed_buf_size of an ftBlob column
needed_buf_size(col) == Len(Flatten(encoded_col(col))) + 5 * Len(col)

\* lines 457-460: the length of the staging buffer when the column is
\* written into it
buf_map_len_at_write(col, col_type, size, nullable) ==
    IF col_type = "ftBlob" /\ needed_buf_size(col) > buf_map_len(size, nullable)
    THEN needed_buf_size(col)
    ELSE buf_map_len(size, nullable)

\* lines 462-520: the bytes _pack_column writes into the staging buffer, for
\* a column pack_accepts accepts: null bitmap, length array, payload
pack_written(col, col_type, size, nullable, tvc) ==
    LET capacity == Len(col)
        bitmap   == IF nullable
                    THEN [i \in 1..capacity |-> IF col[i].ty = "None" THEN 1 ELSE 0]
                    ELSE <<>>
        lengths  == IF tvc
                    THEN Flatten([i \in 1..capacity |-> LE(Len(encoded_col(col)[i]), 4)])
                    ELSE <<>>
        payload  == IF col_type = "ftBlob" THEN Flatten(encoded_col(col))
                    ELSE IF col_type = "ftVarchar"
                    THEN Flatten([i \in 1..capacity |-> varchar_field(col[i], size)])
                    ELSE Flatten([i \in 1..capacity |-> fixed_field(col[i], col_type)])
    IN  bitmap \o lengths \o payload

\* _pack_column, for a column pack_accepts accepts: the slice
\* buf_map[0:buf_idx] returned, buf_idx advanced by capacity * size for a
\* column that is not text (line 525)
_pack_column(col, col_type, size, nullable, tvc) ==
    LET capacity == Len(col)
        written  == pack_written(col, col_type, size, nullable, tvc)
        buf_idx  == IF col_type \in {"ftVarchar", "ftBlob"} THEN Len(written)
                    ELSE (IF nullable THEN capacity ELSE 0)
                         + (IF tvc THEN 4 * capacity ELSE 0) + capacity * size
    IN  [i \in 1..buf_idx |-> IF i <= Len(written) THEN written[i] ELSE 0]

\* lines 390-397: the message of the ProgrammingError pack_exception raises
\* in the worker, col_idx counted from 0
pack_exception(col_idx, col_type) ==
    "Trying to insert unsuitable types to column number "
    \o ToString(col_idx + 1) \o " of type " \o col_type

\* ColumnBuffer.pack_columns: zip stops at the shortest of its arguments;
\* any exception of a worker becomes a ProgrammingError
pack_columns_width(cols, col_types, col_sizes, col_nul, col_tvc) ==
    Min(Min(Len(cols), Len(col_types)),
        Min(Len(col_sizes), Min(Len(col_nul), Len(col_tvc))))

pack_columns_accepts(cols, col_types, col_sizes, col_nul, col_tvc) ==
    \A i \in 1..pack_columns_width(cols, col_types, col_sizes, col_nul, col_tvc) :
        pack_accepts(cols[i], col_types[i], col_sizes[i], col_nul[i], col_tvc[i])

\* the first column a worker refuses, and what the worker raises: the
\* ProgrammingError of pack_exception where the source comes to call it
first_refused(cols, col_types, col_sizes, col_nul, col_tvc) ==
    CHOOSE i \in 1..pack_columns_width(cols, col_types, col_sizes, col_nul, col_tvc) :
        /\ ~pack_accepts(cols[i], col_types[i], col_sizes[i], col_nul[i], col_tvc[i])
        /\ \A k \in 1..(i - 1) :
               pack_accepts(cols[k], col_types[k], col_sizes[k], col_nul[k], col_tvc[k])

worker_error(cols, col_types, col_sizes, col_nul, col_tvc) ==
    pack_exception(first_refused(cols, col_types, col_sizes, col_nul, col_tvc) - 1,
                   col_types[first_refused(cols, col_types, col_sizes, col_nul,
                                           col_tvc)])

\* lines 362-367: the message of the ProgrammingError raised in the place of
\* whatever pool.map raised
pack_columns_error(original) ==
    "Error packing columns. Check that all types match the respective column types"

pack_columns(cols, col_types, col_sizes, col_nul, col_tvc) ==
    [i \in 1..pack_columns_width(cols, col_types, col_sizes, col_nul, col_tvc) |->
        _pack_column(cols[i], col_types[i], col_sizes[i], col_nul[i], col_tvc[i])]

-----------------------------------------------------------------------------
(* Columnar codec: parsing for fetch.                                      *)

\* lengths_to_pairs: the running (start, end) offsets
RECURSIVE lengths_to_pairs(_, _)
lengths_to_pairs(nvarc_lengths, idx) ==
    IF nvarc_lengths = <<>> THEN <<>>
    ELSE <<<<idx, idx + Head(nvarc_lengths)>>>>
         \o lengths_to_pairs(Tail(nvarc_lengths), idx + Head(nvarc_lengths))

\* str.rstrip('\x00').rstrip() of ASCII text
RECURSIVE rstrip_set(_, _)
rstrip_set(cps, chars) ==
    IF cps # <<>> /\ cps[Len(cps)] \in chars
    THEN rstrip_set(SubSeq(cps, 1, Len(cps) - 1), chars)
    ELSE cps

rstrip_nul_space(cps) ==
    rstrip_set(rstrip_set(cps, {0}), (9..13) \cup (28..32))

\* lines 734-748: the entries of one column of a fetched batch, taken from
\* the front of the received ranges: the null bitmap when nullable, the
\* length array (cast to 4-byte integers) when isTrueVarChar, the payload
\* (cast to the type's letter unless it is text)
column_entries(ranges, type_tup, nullable, tvc) ==
    LET k       == (IF nullable THEN 1 ELSE 0) + (IF tvc THEN 1 ELSE 0) + 1
        payload == ranges[k]
    IN  (IF nullable THEN <<ranges[1]>> ELSE <<>>)
        \o (IF tvc THEN <<Cast(ranges[k - 1], "ftInt", 4)>> ELSE <<>>)
        \o << IF type_tup[1] \in {"ftVarchar", "ftBlob"} THEN payload
              ELSE IF type_tup[1] = "ftDateTime"
              THEN [i \in 1..(Len(payload) \div 8) |->
                       << FromLESigned(SubSeq(payload, 8 * i - 3, 8 * i)),
                          FromLE(SubSeq(payload, 8 * i - 7, 8 * i - 4)) >>]
              ELSE Cast(payload, type_tup[1], TypeWidth(type_tup[1])) >>

RECURSIVE data_columns_of(_, _, _, _)
data_columns_of(ranges, type_tups, nul, tvc) ==
    IF type_tups = <<>> \/ nul = <<>> \/ tvc = <<>> THEN <<>>
    ELSE LET k == (IF Head(nul) THEN 1 ELSE 0) + (IF Head(tvc) THEN 1 ELSE 0) + 1
         IN  <<column_entries(ranges, Head(type_tups), Head(nul), Head(tvc))>>
             \o data_columns_of(Drop(ranges, k), Tail(type_tups), Tail(nul), Tail(tvc))

\* lines 764-795: one column of a fetched batch as values.  raw_col_data[0],
\* raw_col_data[1] and raw_col_data[-1] of the source are raw[1], raw[2] and
\* raw[Len(raw)] here
parse_column(raw, type_tup, nullable, tvc) ==
    LET data == raw[Len(raw)]
        col  ==
          IF tvc
          THEN LET pairs == lengths_to_pairs(raw[2], 0)
               IN  [i \in 1..Len(pairs) |->
                      StrCell(decode_utf8(Slice(data, pairs[i][1], pairs[i][2])))]
          ELSE IF type_tup[1] = "ftVarchar"
          THEN [i \in 1..((Len(data) + type_tup[2] - 1) \div type_tup[2]) |->
                   StrCell(rstrip_nul_space(
                       Slice(data, (i - 1) * type_tup[2], i * type_tup[2])))]
          ELSE IF type_tup[1] = "ftDate"
          THEN [i \in 1..Len(data) |-> DateCell(sq_date_to_tuple(data[i]))]
          ELSE IF type_tup[1] = "ftDateTime"
          THEN [i \in 1..Len(data) |-> DateTimeCell(sq_datetime_to_tuple(data[i]))]
          ELSE [i \in 1..Len(data) |-> IntCell(data[i])]
    IN  IF nullable
        THEN [i \in 1..Min(Len(col), Len(raw[1])) |->
                 IF raw[1][i] = 0 THEN col[i] ELSE NoneCell]
        ELSE col

RECURSIVE MinLen(_)
MinLen(cols) ==
    IF Len(cols) = 1 THEN Len(cols[1]) ELSE Min(Len(Head(cols)), MinLen(Tail(cols)))

\* zip(*cols): the rows of a list of columns (and the columns of a list of
\* rows), as long as the shortest of them
zip_rows(cols) ==
    IF cols = <<>> THEN <<>>
    ELSE [r \in 1..MinLen(cols) |-> [c \in 1..Len(cols) |-> cols[c][r]]]

-----------------------------------------------------------------------------
(* What the server may answer.                                             *)

\* column descriptors of a queryType / queryTypeNamed reply:
\* {"name", "isTrueVarChar", "nullable", "type": [tag, byte width, scale]}
ColA == [name |-> "a", isTrueVarChar |-> FALSE, nullable |-> TRUE,
         type |-> <<"ftUByte", 1, 0>>]
ColB == [name |-> "b", isTrueVarChar |-> TRUE, nullable |-> FALSE,
         type |-> <<"ftBlob", 0, 0>>]
ColC == [name |-> "c", isTrueVarChar |-> FALSE, nullable |-> FALSE,
         type |-> <<"ftInt", 4, 0>>]

\* the column lists a queryTypeIn or queryTypeOut reply may carry
ColumnLists == { <<>>, <<ColA>>, <<ColC, ColB>> }

\* one fetch reply: the row count, the sizes of the byte ranges that follow
\* the binary header, and the ranges themselves
Batch(rows, data) ==
    [rows |-> rows, colSzs |-> [i \in 1..Len(data) |-> Len(data[i])], data |-> data]

\* the result sets (sequences of batches) the server may hold for a Select
\* statement with the given output columns
ResultSets(column_list) ==
    IF column_list = <<ColA>>
    THEN { <<>>,
           << Batch(2, << <<0, 1>>, <<11, 0>> >>), Batch(1, << <<0>>, <<13>> >>) >> }
    ELSE IF column_list = <<ColC, ColB>>
    THEN { << Batch(2, << LE(21, 4) \o LE(22, 4), LE(1, 4) \o LE(0, 4), <<120>> >>) >> }
    ELSE { <<>> }

\* the parsed prepareStatement reply (lb_params) without a redirect, with
\* "reconnect": false, and with a redirect to node 2
NoRedirect == [reconnect |-> "absent", ip |-> 0, port |-> 0, port_ssl |-> 0,
               listener_id |-> 0]
LbParams ==
    { NoRedirect,
      [reconnect |-> "false", ip |-> 2, port |-> 3108, port_ssl |-> 3109,
       listener_id |-> 4],
      [reconnect |-> "true", ip |-> 2, port |-> 3108, port_ssl |-> 3109,
       listener_id |-> 4] }

\* the text of the prepareStatement reply: it holds statementPrepared, or it
\* is an error
PrepareReplies ==
    { [text |-> <<"{","\"">> \o STATEMENT_PREPARED \o <<"\"","}">>, params |-> p] :
          p \in LbParams }
    \cup { [text |-> <<"{","\"","e","r","r","o","r","\"","}">>, params |-> NoRedirect] }

\* the statements the server may be given: an Insert (input columns), a
\* Select with its result set, a DML statement (no columns at all), and a
\* statement that reports both input and output columns
StatementKinds ==
    { [qtIn |-> i, qtOut |-> <<>>, result |-> <<>>] : i \in ColumnLists \ {<<>>} }
    \cup UNION { { [qtIn |-> <<>>, qtOut |-> o, result |-> r] : r \in ResultSets(o) } :
                 o \in ColumnLists }
    \cup { [qtIn |-> <<ColA>>, qtOut |-> <<ColA>>, result |-> <<>>] }

\* what the server answers during one execute: the prepareStatement reply,
\* the two query type replies and the result set it holds afterwards.  A
\* reply that is an error, and one whose "reconnect" is false, are tried
\* with one statement (the DML statement); the others with every statement
Env(p, k) == [prep |-> p, qtIn |-> k.qtIn, qtOut |-> k.qtOut, result |-> k.result]
ExecuteEnv ==
    { Env(p, k) : p \in { q \in PrepareReplies :
                            /\ Contains(q.text, STATEMENT_PREPARED)
                            /\ q.params.reconnect # "false" },
                 k \in StatementKinds }
    \cup { Env(p, [qtIn |-> <<>>, qtOut |-> <<>>, result |-> <<>>]) :
              p \in PrepareReplies }

-----------------------------------------------------------------------------
(* Connection: opening, and the reconnect-on-drop policy.  No method of    *)
(* the source calls _attempt_reconnect, and so none of the model does.     *)

\* Connection._open_connection, clustered = False: a new socket to the
\* server; the event is the connect of SQSocket._setup_socket
_open_connection(m) ==
    IF ~Running(m) THEN m
    ELSE [m EXCEPT !.s.open = TRUE,
                   !.s.lost = "no",
                   !.s.peer = <<m.s.ip, m.s.port>>,
                   !.wire = Append(@, Ev("connect", "", <<m.s.ip, m.s.port>>)),
                   !.bco = IF m.self.base_connection THEN TRUE ELSE @]

\* Connection.connect_database; the server keeps the connection id
connect_database(m) ==
    _send_string(m, "connectDatabase", <<>>, TRUE)

\* Connection._attempt_reconnect from the given attempt on; the server
\* refuses every connect before attempt up_at (0: it refuses them all)
RECURSIVE _attempt_reconnect(_, _, _)
_attempt_reconnect(m, attempt, up_at) ==
    IF ~Running(m) THEN m
    ELSE IF attempt > reconnect_attempts
    THEN Raise(m, "ConnectionRefusedError", "Reconnection attempts to sqreamd failed")
    ELSE IF attempt = up_at THEN connect_database(_open_connection(m))
    ELSE _attempt_reconnect(
             [m EXCEPT !.wire = Append(@, Ev("connect", "", <<m.s.ip, m.s.port>>))],
             attempt + 1, up_at)

-----------------------------------------------------------------------------
(* Connection: closing and executing a statement.  A method is a pipeline  *)
(* of steps; a step leaves a machine that has raised as it is.             *)

\* line 849, and the server's side of closeStatement
statement_closed(m) ==
    IF ~Running(m) THEN m
    ELSE [m EXCEPT !.self.open_statement = FALSE,
                   !.srv.kind = "none",
                   !.srv.batches = <<>>,
                   !.hist.open_ids = @ \ {m.self.stmt_id}]

\* Connection.close_statement
close_statement(m) ==
    statement_closed(_send_string(m, "closeStatement", <<>>, TRUE))

\* a faulty begin_statement: the open statement is left open
begin_statement_unclosed(m, stmt) ==
    IF ~Running(m) THEN m ELSE [m EXCEPT !.self.latest_stmt = stmt]

\* lines 633-636: remember the statement, close the one that is open
begin_statement(m, stmt) ==
    IF ~Running(m) THEN m
    ELSE IF m.self.open_statement
    THEN close_statement([m EXCEPT !.self.latest_stmt = stmt])
    ELSE [m EXCEPT !.self.latest_stmt = stmt]

\* lines 637-639; hist.zero_seen is about the statement before this execute
mark_open(m) ==
    IF ~Running(m) THEN m
    ELSE [m EXCEPT !.self.open_statement = TRUE,
                   !.self.more_to_fetch = "True",
                   !.hist.zero_seen = FALSE]

\* line 643: the statement id of the getStatementId reply
got_statement_id(m) ==
    IF ~Running(m) THEN m
    ELSE [m EXCEPT !.self.stmt_id = m.srv.nextId,
                   !.srv.nextId = @ + 1,
                   !.srv.kind = "none",
                   !.srv.batches = <<>>,
                   !.hist.open_ids = @ \cup {m.srv.nextId}]

\* lines 635-643
open_new_statement(m, stmt) ==
    got_statement_id(
        _send_string(mark_open(begin_statement(m, stmt)), "getStatementId", <<>>, TRUE))

\* a faulty redirect_port: the two ports taken for each other
redirect_port_swapped(lb_params, use_ssl) ==
    IF use_ssl THEN lb_params.port ELSE lb_params.port_ssl

\* the endpoint of the redirect (lines 653-655)
redirect_port(lb_params, use_ssl) ==
    IF use_ssl THEN lb_params.port_ssl ELSE lb_params.port

\* lines 653-663: transport reconnect, reconnectDatabase, reconstructStatement
redirect(m) ==
    _send_string(
        _send_string(
            reconnect(m, m.self.lb_params.ip,
                      redirect_port(m.self.lb_params, m.self.use_ssl)),
            "reconnectDatabase",
            <<m.self.connection_id, m.self.lb_params.listener_id>>, TRUE),
        "reconstructStatement", <<m.self.stmt_id>>, TRUE)

\* line 650: the redirect is made when the reply's "reconnect" is truthy
redirect_if_directed(m) ==
    IF Running(m) /\ m.self.lb_params.reconnect = "true" THEN redirect(m) ELSE m

\* line 649
set_lb_params(m, params) ==
    IF ~Running(m) THEN m ELSE [m EXCEPT !.self.lb_params = params]

\* the server's side of execute: it now holds the statement's result set
server_executes(m, env) ==
    IF ~Running(m) THEN m
    ELSE [m EXCEPT !.srv.kind = IF env.qtIn = <<>> /\ env.qtOut # <<>>
                                THEN "select" ELSE "other",
                   !.srv.batches = IF env.qtIn = <<>> /\ env.qtOut # <<>>
                                   THEN env.result ELSE <<>>]

\* lines 645-666: prepare, redirect when directed, execute
prepare_and_execute(m, stmt, env) ==
    server_executes(
        _send_string(
            redirect_if_directed(
                set_lb_params(
                    validate_response(
                        _send_string(m, "prepareStatement",
                                     <<stmt, DEFAULT_CHUNKSIZE>>, TRUE),
                        env.prep.text, STATEMENT_PREPARED),
                    env.prep.params)),
            "execute", <<>>, TRUE),
        env)

\* lines 689-690: the schema attributes taken from column_list
schema_attrs(m) ==
    IF ~Running(m) THEN m
    ELSE [m EXCEPT
            !.self.col_names =
                [i \in 1..Len(m.self.column_list) |-> m.self.column_list[i].name],
            !.self.col_tvc =
                [i \in 1..Len(m.self.column_list) |-> m.self.column_list[i].isTrueVarChar],
            !.self.col_nul =
                [i \in 1..Len(m.self.column_list) |-> m.self.column_list[i].nullable],
            !.self.col_type_tups =
                [i \in 1..Len(m.self.column_list) |-> m.self.column_list[i].type]]

\* lines 696-702: for an INSERT statement, the types and sizes, the row
\* size, the flush size and the staging buffers (with their pool)
insert_setup(m) ==
    IF ~Running(m) \/ m.self.statement_type # "INSERT" THEN m
    ELSE [m EXCEPT
            !.self.col_types = [i \in 1..Len(m.self.col_type_tups) |->
                                   m.self.col_type_tups[i][1]],
            !.self.col_sizes = [i \in 1..Len(m.self.col_type_tups) |->
                                   m.self.col_type_tups[i][2]],
            !.self.row_size =
                SumSeq([i \in 1..Len(m.self.col_type_tups) |->
                           m.self.col_type_tups[i][2]])
                + Cardinality({i \in 1..Len(m.self.col_nul) : m.self.col_nul[i]})
                + 4 * Cardinality({i \in 1..Len(m.self.col_tvc) : m.self.col_tvc[i]}),
            !.self.rows_per_flush = ROWS_PER_FLUSH,
            !.self.pool = TRUE]

\* lines 705-706
reset_parsed(m) ==
    IF ~Running(m) THEN m
    ELSE [m EXCEPT !.self.parsed_rows = <<>>,
                   !.self.has_parsed_rows = TRUE,
                   !.self.parsed_row_amount = 0]

\* lines 688-706
set_schema(m) == reset_parsed(insert_setup(schema_attrs(m)))

\* lines 670 and 675: the column list of a query type reply
got_column_list(m, column_list) ==
    IF ~Running(m) THEN m ELSE [m EXCEPT !.self.column_list = column_list]

\* lines 676-684: after queryTypeOut, DML (closed at once) or SELECT
by_query_type_out(m) ==
    IF ~Running(m) THEN m
    ELSE IF m.self.column_list = <<>>
    THEN close_statement([m EXCEPT !.self.statement_type = "DML"])
    ELSE set_schema([m EXCEPT !.self.statement_type = "SELECT",
                              !.self.data_columns = <<>>,
                              !.self.unparsed_row_amount = 0])

\* a faulty by_query_type_in: input columns taken for a result set
by_query_type_in_as_select(m, env) ==
    IF ~Running(m) THEN m
    ELSE IF m.self.column_list = <<>>
    THEN by_query_type_out(
             got_column_list(_send_string(m, "queryTypeOut", <<>>, TRUE), env.qtOut))
    ELSE set_schema([m EXCEPT !.self.statement_type = "SELECT"])

\* lines 672-686: after queryTypeIn, INSERT or the queryTypeOut probe
by_query_type_in(m, env) ==
    IF ~Running(m) THEN m
    ELSE IF m.self.column_list = <<>>
    THEN by_query_type_out(
             got_column_list(_send_string(m, "queryTypeOut", <<>>, TRUE), env.qtOut))
    ELSE set_schema([m EXCEPT !.self.statement_type = "INSERT"])

\* lines 668-706: the query type probes and the kind of the statement
classify(m, env) ==
    by_query_type_in(
        got_column_list(_send_string(m, "queryTypeIn", <<>>, TRUE), env.qtIn), env)

\* Connection.execute_sqream_statement
execute_sqream_statement(m, stmt, env) ==
    classify(prepare_and_execute(open_new_statement(m, stmt), stmt, env), env)

-----------------------------------------------------------------------------
(* Connection: the select path.                                            *)

RECURSIVE receive_all(_, _)
receive_all(m, sizes) ==
    IF sizes = <<>> THEN m ELSE receive_all(receive(m, Head(sizes)), Tail(sizes))

\* lines 719-720: m.fetched is the value _fetch returns
returned_zero(m) == IF ~Running(m) THEN m ELSE [m EXCEPT !.fetched = 0]

\* lines 732-752
batch_received(m, batch) ==
    IF ~Running(m) THEN m
    ELSE [m EXCEPT
            !.srv.batches = Tail(@),
            !.self.data_columns =
                data_columns_of(batch.data, m.self.col_type_tups,
                                m.self.col_nul, m.self.col_tvc),
            !.self.unparsed_row_amount = batch.rows,
            !.fetched = batch.rows]

\* lines 716-752.  The server answers a fetch on its open Select statement
\* with the next batch of its result set, with 0 rows when none is left, and
\* with an error (a reply without "rows") otherwise
fetch_reply(m) ==
    IF ~Running(m) THEN m
    ELSE IF m.srv.kind # "select" THEN Raise(m, "KeyError", "rows")
    ELSE IF m.srv.batches = <<>>
    THEN returned_zero(close_statement(
             [m EXCEPT !.hist.zero_seen = (m.self.statement_type = "SELECT")]))
    ELSE batch_received(receive_all(receive(m, 10), Head(m.srv.batches).colSzs),
                        Head(m.srv.batches))

\* Connection._fetch
_fetch(m) == fetch_reply(_send_string(m, "fetch", <<>>, TRUE))

\* the value of Connection._parse_fetched_cols
extracted_cols(m) ==
    [i \in 1..Len(m.self.data_columns) |->
        parse_column(m.self.data_columns[i], m.self.col_type_tups[i],
                     m.self.col_nul[i], m.self.col_tvc[i])]

\* Connection._parse_fetched_cols, its value appended to parsed_rows as rows
\* (line 812)
_parse_fetched_cols(m) ==
    IF ~Running(m) \/ m.self.data_columns = <<>> THEN m
    ELSE [m EXCEPT !.self.parsed_rows = @ \o zip_rows(extracted_cols(m)),
                   !.self.unparsed_row_amount = 0,
                   !.self.data_columns = <<>>]

\* a faulty set_more_to_fetch: the row count of the reply is not looked at
set_more_to_fetch_always(m) ==
    IF ~Running(m) THEN m ELSE [m EXCEPT !.self.more_to_fetch = "True"]

\* line 810: more_to_fetch = bool(self._fetch())
set_more_to_fetch(m) ==
    IF ~Running(m) THEN m
    ELSE [m EXCEPT !.self.more_to_fetch = IF m.fetched # 0 THEN "True" ELSE "False"]

\* Connection._fetch_and_parse, data_as = 'rows'
RECURSIVE _fetch_and_parse(_, _)
_fetch_and_parse(m, requested_row_amount) ==
    IF ~Running(m) THEN m
    ELSE IF ~m.self.has_parsed_rows
    THEN Raise(m, "AttributeError", "parsed_rows")
    ELSE IF /\ \/ requested_row_amount > Len(m.self.parsed_rows)
               \/ requested_row_amount = -1
            /\ m.self.more_to_fetch = "True"
    THEN _fetch_and_parse(_parse_fetched_cols(set_more_to_fetch(_fetch(m))),
                          requested_row_amount)
    ELSE m

-----------------------------------------------------------------------------
(* Connection: the insert path.                                            *)

\* the text of the server's reply to the i-th put of a call
PutReply(acks, i) ==
    IF i = acks.refused THEN <<"{","\"","e","r","r","o","r","\"","}">> ELSE acks.text

RECURSIVE send_all(_, _)
send_all(m, packed_cols) ==
    IF packed_cols = <<>> THEN m
    ELSE send_all(send(m, "sendbin", "column", Head(packed_cols)), Tail(packed_cols))

\* a faulty byte_count: the number of columns, not of their bytes
column_count(packed_cols) == Len(packed_cols)

\* line 830
byte_count(packed_cols) ==
    SumSeq([i \in 1..Len(packed_cols) |-> Len(packed_cols[i])])

\* lines 830-838: the put message, the binary header and the packed columns
put_packed(m, packed_cols, capacity) ==
    send_all(
        send(_send_string(m, "put", <<capacity>>, FALSE),
             "sendbin", "header",
             generate_message_header(Int64(byte_count(packed_cols)), FALSE)),
        packed_cols)

\* m.acked counts the chunks of the call the server acknowledged
acknowledged(m) == IF ~Running(m) THEN m ELSE [m EXCEPT !.acked = @ + 1]

\* Connection._send_columns
_send_columns(m, cols, capacity, response) ==
    IF ~Running(m) THEN m
    ELSE IF ~m.self.pool THEN Raise(m, "AttributeError", "pool")
    ELSE IF ~pack_columns_accepts(cols, m.self.col_types, m.self.col_sizes,
                                  m.self.col_nul, m.self.col_tvc)
    THEN Raise(m, "ProgrammingError",
               pack_columns_error(worker_error(cols, m.self.col_types,
                   m.self.col_sizes, m.self.col_nul, m.self.col_tvc)))
    ELSE acknowledged(
             validate_response(
                 get_response(
                     put_packed(m,
                                pack_columns(cols, m.self.col_types, m.self.col_sizes,
                                             m.self.col_nul, m.self.col_tvc),
                                capacity)),
                 response, PUT_ACK))

\* line 1037
col_chunk(cols, rows_per_flush) ==
    [c \in 1..Len(cols) |-> Take(cols[c], rows_per_flush)]

\* a faulty line 1041: the columns advance by one row, not by a chunk
cols_advanced_by_one(m) ==
    IF ~Running(m) THEN m
    ELSE [m EXCEPT !.self.cols = [c \in 1..Len(@) |-> Drop(@[c], 1)]]

\* line 1041
cols_advanced(m) ==
    IF ~Running(m) THEN m
    ELSE [m EXCEPT !.self.cols =
             [c \in 1..Len(@) |-> Drop(@[c], m.self.rows_per_flush)]]

\* lines 1036-1041: the chunks of self.cols, rows_per_flush rows at a time;
\* i counts the chunks.  A column built by zip is a tuple, so the list
\* equals [()] only when as_rows
RECURSIVE send_chunks(_, _, _, _)
send_chunks(m, acks, i, as_rows) ==
    IF ~Running(m) THEN m
    ELSE IF as_rows /\ m.self.cols = << <<>> >> THEN m
    ELSE IF Len(col_chunk(m.self.cols, m.self.rows_per_flush)[1]) = 0 THEN m
    ELSE send_chunks(
             cols_advanced(
                 _send_columns(m, col_chunk(m.self.cols, m.self.rows_per_flush),
                               Len(col_chunk(m.self.cols, m.self.rows_per_flush)[1]),
                               PutReply(acks, i))),
             acks, i + 1, as_rows)

-----------------------------------------------------------------------------
(* Connection: closing, and the DB-API methods.                            *)

\* line 858: SQSocket.close
socket_closed(m) ==
    IF ~Running(m) THEN m
    ELSE [m EXCEPT !.s.open = FALSE, !.wire = Append(@, Ev("close", "", <<>>))]

\* lines 859-861.  ColumnBuffer.close closes self.pool, an attribute only
\* init_buffers (an INSERT statement) creates
buffer_closed(m) ==
    IF ~Running(m) THEN m
    ELSE IF ~m.self.pool THEN Raise(m, "AttributeError", "pool")
    ELSE [m EXCEPT !.self.closed = TRUE,
                   !.bco = IF m.self.base_connection THEN FALSE ELSE TRUE]

\* Connection.close_connection
close_connection(m) ==
    IF ~Running(m) THEN m
    ELSE IF m.self.closed
    THEN Raise(m, "ProgrammingError", "Trying to close a connection that's already closed")
    ELSE buffer_closed(socket_closed(_send_string(m, "closeConnection", <<>>, TRUE)))

\* line 1118
mark_closed(m) == IF ~Running(m) THEN m ELSE [m EXCEPT !.self.closed = TRUE]

\* Connection.close
close(m) ==
    IF m.self.closed
    THEN Raise(m, "ProgrammingError", "Trying to close a connection that's already closed")
    ELSE mark_closed(close_connection(close_statement(m)))

\* Connection._verify_open
_verify_open(m) ==
    IF ~Running(m) THEN m
    ELSE IF ~m.bco THEN Raise(m, "ProgrammingError", "Connection has been closed")
    ELSE IF m.self.closed THEN Raise(m, "ProgrammingError", "Cursor has been closed")
    ELSE m

\* Connection._verify_query_type: query_type is not looked at
_verify_query_type(m, query_type) ==
    IF ~Running(m) THEN m
    ELSE IF ~m.self.open_statement
    THEN Raise(m, "ProgrammingError", "No open statement while attempting fetch operation")
    ELSE m

\* what a call returns: the connection itself, a list of rows, one row, None
RetSelf == [kind |-> "self", rows |-> <<>>]
RetList(rows) == [kind |-> "list", rows |-> rows]
RetRow(row) == [kind |-> "row", rows |-> <<row>>]
RetNone == [kind |-> "None", rows |-> <<>>]
NoRet == [kind |-> "raised", rows |-> <<>>]

Return(m, ret) == IF Running(m) THEN [m EXCEPT !.ret = ret] ELSE m

\* Connection._fill_description
_fill_description(m) ==
    IF ~Running(m) THEN m
    ELSE IF m.self.statement_type # "SELECT" THEN [m EXCEPT !.self.description = <<>>]
    ELSE [m EXCEPT !.self.description =
             [i \in 1..Len(m.self.col_names) |->
                 <<m.self.col_names[i], m.self.col_type_tups[i][1],
                   m.self.col_type_tups[i][2], m.self.col_nul[i]>>]]

\* lines 984-986
reject_params(m, params) ==
    IF Running(m) /\ params
    THEN Raise(m, "ProgrammingError", "Parametered queries not supported")
    ELSE m

\* Connection.execute
execute(m, query, params, env) ==
    Return(_fill_description(
               execute_sqream_statement(reject_params(_verify_open(m), params),
                                        query, env)),
           RetSelf)

\* lines 1024-1033: the check of the data sequences, then self.capacity and
\* self.cols
take_data(m, rows_or_cols, as_rows) ==
    IF ~Running(m) THEN m
    ELSE IF Cardinality({Len(rows_or_cols[i]) : i \in 1..Len(rows_or_cols)}) > 1
    THEN Raise(m, "ProgrammingError", "Incosistent data sequences passed for inserting")
    ELSE IF as_rows
    THEN [m EXCEPT !.self.capacity = Len(rows_or_cols),
                   !.self.cols = zip_rows(rows_or_cols)]
    ELSE [m EXCEPT !.self.cols = rows_or_cols,
                   !.self.capacity = Len(rows_or_cols)]

\* lines 1017-1045: what executemany does once execute has returned
insert_data(m, data, acks) ==
    IF ~Running(m) \/ ~data.given THEN m
    ELSE Return(close_statement(
                    send_chunks(take_data(m, data.seqs, data.as_rows),
                                acks, 1, data.as_rows)),
                RetSelf)

\* Connection.executemany; data.given is FALSE for rows_or_cols = None
executemany(m, query, data, env, acks) ==
    insert_data(execute(_verify_open(m), query, FALSE, env), data, acks)

\* lines 1062-1068
take_rows(m, size) ==
    IF ~Running(m) THEN m
    ELSE LET res == IF size # -1 THEN Take(m.self.parsed_rows, size)
                    ELSE m.self.parsed_rows
         IN  Return([m EXCEPT !.self.parsed_rows =
                        IF size # -1 THEN Drop(@, size) ELSE <<>>],
                    IF size # 1 THEN RetList(res)
                    ELSE IF res # <<>> THEN RetRow(res[1])
                    ELSE RetNone)

\* a faulty fetch_sized: more_to_fetch is not looked at
fetch_sized_unchecked(m, size) ==
    IF ~Running(m) THEN m
    ELSE take_rows(_fetch_and_parse(_verify_query_type(m, "SELECT"), size), size)

\* lines 1053-1068
fetch_sized(m, size) ==
    IF ~Running(m) THEN m
    ELSE IF m.self.more_to_fetch = "False" THEN Return(m, RetList(<<>>))
    ELSE take_rows(_fetch_and_parse(_verify_query_type(m, "SELECT"), size), size)

\* Connection.fetchmany, data_as = 'rows'; size 0 stands for None
fetchmany(m, size_arg) ==
    fetch_sized(_verify_open(m), IF size_arg = 0 THEN m.self.arraysize ELSE size_arg)

\* Connection.fetchone
fetchone(m) == fetchmany(m, 1)

\* Connection.fetchall
fetchall(m) == fetchmany(m, -1)

-----------------------------------------------------------------------------
(* The state machine: one action per call of the DB-API.                   *)

\* the data a caller passes to executemany: none, three rows of one column,
\* two rows of two columns, one column of three values column-major, three
\* rows of one column whose last value is a str, and rows of unequal
\* lengths (3 and 4)
NoData == [given |-> FALSE, as_rows |-> TRUE, seqs |-> <<>>]
Rows(seqs) == [given |-> TRUE, as_rows |-> TRUE, seqs |-> seqs]
Columns(seqs) == [given |-> TRUE, as_rows |-> FALSE, seqs |-> seqs]
Unequal ==
    << <<IntCell(1), IntCell(2), IntCell(3)>>,
       <<IntCell(1), IntCell(2), IntCell(3), IntCell(4)>> >>
InsertData ==
    { NoData,
      Rows(<< <<IntCell(1)>>, <<NoneCell>>, <<IntCell(3)>> >>),
      Rows(<< <<IntCell(21), StrCell(<<120>>)>>, <<IntCell(22), StrCell(<<>>)>> >>),
      Columns(<< <<IntCell(1), NoneCell, IntCell(3)>> >>),
      Rows(<< <<IntCell(1)>>, <<IntCell(2)>>, <<StrCell(<<120>>)>> >>),
      Rows(Unequal) }

\* the server's replies to the puts of one call: the text of an
\* acknowledgment (the token alone, or a longer text that holds it) and the
\* chunk it refuses (0: none)
Acked == [refused |-> 0, text |-> PUT_ACK]
PutAcks ==
    { Acked,
      [refused |-> 0, text |-> PUT_ACK \o <<"\n">>],
      [refused |-> 2, text |-> PUT_ACK] }

\* the replies that matter to a call: those to the puts it can come to make
PutAcksFor(data) ==
    IF data.given /\ Cardinality({Len(data.seqs[i]) : i \in 1..Len(data.seqs)}) = 1
    THEN PutAcks ELSE {Acked}

\* no server answer to a query type probe
NoEnv == [qtIn |-> <<>>, qtOut |-> <<>>]

Queries == {"stmt"}

\* the sizes passed to fetchmany (0: None)
FetchSizes == {0, 2}

\* Connection.__init__ and connect_database
InitSelf(use_ssl, base_connection) ==
    [ latest_stmt |-> "", open_statement |-> FALSE, closed |-> FALSE,
      more_to_fetch |-> "None", stmt_id |-> 0, statement_type |-> "unset",
      column_list |-> <<>>, col_names |-> <<>>, col_tvc |-> <<>>, col_nul |-> <<>>,
      col_type_tups |-> <<>>, col_types |-> <<>>, col_sizes |-> <<>>,
      row_size |-> 0, rows_per_flush |-> 0,
      parsed_rows |-> <<>>, has_parsed_rows |-> FALSE, parsed_row_amount |-> 0,
      data_columns |-> <<>>, unparsed_row_amount |-> 0,
      lb_params |-> NoRedirect, cols |-> <<>>, capacity |-> 0, pool |-> FALSE,
      arraysize |-> FETCH_MANY_DEFAULT, description |-> <<>>,
      use_ssl |-> use_ssl, base_connection |-> base_connection,
      connection_id |-> 7 ]

\* no component is on the bench
NoBench == [unit |-> "none"]

\* the session after connect(); use_ssl and base_connection are the caller's
Connected(use_ssl, base_connection) ==
    /\ self = InitSelf(use_ssl, base_connection)
    /\ s = [open |-> TRUE, ip |-> 1, port |-> 5000, peer |-> <<1, 5000>>,
            lost |-> "no"]
    /\ srv = [nextId |-> 1, kind |-> "none", batches |-> <<>>]
    /\ base_conn_open = TRUE
    /\ wire = <<>>
    /\ hist = [open_ids |-> {}, zero_seen |-> FALSE]
    /\ last = [op |-> "connect", size |-> 0, data |-> NoData, env |-> NoEnv,
               replies |-> <<>>, exc |-> "none",
               msg |-> "", ret |-> RetSelf, acked |-> 0,
               pre |-> [open_statement |-> FALSE, more_to_fetch |-> "None",
                        closed |-> FALSE, statement_type |-> "unset",
                        rows_per_flush |-> 0, bco |-> FALSE, sock_open |-> FALSE,
                        zero_seen |-> FALSE, next_id |-> 1]]

Init ==
    /\ \E use_ssl \in BOOLEAN, base_connection \in BOOLEAN :
           Connected(use_ssl, base_connection)
    /\ bench = NoBench

\* the machine at the start of a call
Start ==
    [self |-> self, s |-> s, srv |-> srv, bco |-> base_conn_open, wire |-> <<>>,
     exc |-> "none", msg |-> "", ret |-> NoRet, fetched |-> 0, acked |-> 0,
     hist |-> hist]

\* what the properties need of the state a call started in
Pre ==
    [open_statement |-> self.open_statement, more_to_fetch |-> self.more_to_fetch,
     closed |-> self.closed, statement_type |-> self.statement_type,
     rows_per_flush |-> self.rows_per_flush, bco |-> base_conn_open,
     sock_open |-> s.open, zero_seen |-> hist.zero_seen, next_id |-> srv.nextId]

\* the control messages of a kind among the events of a call
Sent(events, t) ==
    {i \in 1..Len(events) : events[i].k = "send" /\ events[i].t = t}

\* what the server answered during a call: the column lists of the query
\* type probes the call made, and the replies to the puts it made
Answered(m, env) ==
    [qtIn  |-> IF Sent(m.wire, "queryTypeIn") # {} THEN env.qtIn ELSE <<>>,
     qtOut |-> IF Sent(m.wire, "queryTypeOut") # {} THEN env.qtOut ELSE <<>>]
PutReplies(m, acks) ==
    [j \in 1..Cardinality(Sent(m.wire, "put")) |-> PutReply(acks, j)]

\* the session after a call that ended in machine m
CommitCall(m, op, size, data, env, acks) ==
    /\ self' = m.self
    /\ s' = m.s
    /\ srv' = m.srv
    /\ base_conn_open' = m.bco
    /\ wire' = m.wire
    /\ hist' = m.hist
    /\ last' = [op |-> op, size |-> size, data |-> data,
                env |-> Answered(m, env), replies |-> PutReplies(m, acks),
                exc |-> m.exc,
                msg |-> m.msg, ret |-> m.ret, acked |-> m.acked,
                pre |-> Pre]

\* the state after a call that ended in machine m
Commit(m, op, size, data, env, acks) ==
    /\ CommitCall(m, op, size, data, env, acks)
    /\ UNCHANGED bench

Execute ==
    /\ srv.nextId <= MaxStmts
    /\ \E query \in Queries, params \in BOOLEAN, env \in ExecuteEnv :
           Commit(execute(Start, query, params, env), "execute", 0, NoData, env, Acked)

ExecuteMany ==
    /\ srv.nextId <= MaxStmts
    /\ \E query \in Queries, data \in InsertData, env \in ExecuteEnv :
         \E acks \in PutAcksFor(data) :
           Commit(executemany(Start, query, data, env, acks), "executemany", 0, data,
                  env, acks)

FetchMany ==
    \E size \in FetchSizes : Commit(fetchmany(Start, size), "fetchmany", size, NoData, NoEnv, Acked)

FetchOne == Commit(fetchone(Start), "fetchone", 1, NoData, NoEnv, Acked)

FetchAll == Commit(fetchall(Start), "fetchall", -1, NoData, NoEnv, Acked)

CloseStatement == Commit(close_statement(Start), "close_statement", 0, NoData, NoEnv, Acked)

CloseConnection == Commit(close_connection(Start), "close_connection", 0, NoData, NoEnv, Acked)

Close == Commit(close(Start), "close", 0, NoData, NoEnv, Acked)

Next ==
    \/ Execute
    \/ ExecuteMany
    \/ FetchMany
    \/ FetchOne
    \/ FetchAll
    \/ CloseStatement
    \/ CloseConnection
    \/ Close

Spec == Init /\ [][Next]_vars

\* The connection is lost (the server or the network drops it) between two
\* calls: the next send fails, or the send goes through and the next read
\* returns 0 bytes
ConnectionLost ==
    /\ s.open
    /\ s.lost = "no"
    /\ \E how \in {"send", "recv"} : s' = [s EXCEPT !.lost = how]
    /\ UNCHANGED <<self, srv, base_conn_open, wire, last, hist, bench>>

\* the session on a transport that can be lost
DropNext ==
    \/ ConnectionLost
    \/ Execute
    \/ FetchMany
    \/ CloseStatement

DropSpec == Init /\ [][DropNext]_vars

-----------------------------------------------------------------------------
(* Properties.  After a call, wire holds the transport events of the call  *)
(* and last what the call was, what it was given, what the server answered *)
(* and how it ended; last.pre is the state the call started in.            *)

ExecOps == {"execute", "executemany"}
FetchOps == {"fetchone", "fetchmany", "fetchall"}
CloseOps == {"close", "close_connection"}

\* the call sent a control message or bytes
SentAnything == \E i \in 1..Len(wire) : wire[i].k \in {"send", "sendbin"}

\* the call sent a control message of kind t
SentMsg(t) == Sent(wire, t) # {}

\* the call started on a session that passes _verify_open
WasUsable == last.pre.bco /\ ~last.pre.closed

\* C1: after a fetch reply reported 0 rows for the current Select statement,
\* a fetchone, fetchmany or fetchall call made before the next execute sends
\* nothing to the server and, the session not being closed, returns the
\* empty list
C1_EmptyAfterZeroRows ==
    (last.op \in FetchOps /\ last.pre.zero_seen) =>
        /\ ~SentAnything
        /\ (WasUsable => (last.exc = "none" /\ last.ret = RetList(<<>>)))

C1_Witness ==
    /\ last.op = "fetchone"
    /\ last.pre.zero_seen
    /\ last.exc = "none"
    /\ last.ret = RetList(<<>>)

\* the events of a redirect
RedirectEvents ==
    {i \in 1..Len(wire) :
        \/ wire[i].k = "reconnect"
        \/ wire[i].k = "send" /\ wire[i].t \in {"reconnectDatabase", "reconstructStatement"}}

\* C2: when the prepare reply carries a truthy reconnect directive, the
\* execute message is preceded, in this order, by prepareStatement, the
\* transport reconnect to the directed ip and port (port_ssl when use_ssl,
\* else port), reconnectDatabase with the connection id and the listener id,
\* and reconstructStatement with the statement id obtained before prepare;
\* without a directive none of the three happens and execute follows prepare
C2_RedirectBeforeExecute ==
    last.op \in ExecOps =>
        /\ (RedirectEvents # {} => self.lb_params.reconnect = "true")
        /\ \A e \in Sent(wire, "execute") :
              IF self.lb_params.reconnect = "true"
              THEN /\ e > 7
                   /\ wire[e - 7].k = "send" /\ wire[e - 7].t = "prepareStatement"
                   /\ wire[e - 6].k = "resp"
                   /\ wire[e - 5] =
                          Ev("reconnect", "",
                             <<self.lb_params.ip,
                               IF self.use_ssl THEN self.lb_params.port_ssl
                               ELSE self.lb_params.port>>)
                   /\ wire[e - 4] =
                          Ev("send", "reconnectDatabase",
                             <<self.connection_id, self.lb_params.listener_id>>)
                   /\ wire[e - 3].k = "resp"
                   /\ wire[e - 2] = Ev("send", "reconstructStatement", <<self.stmt_id>>)
                   /\ wire[e - 1].k = "resp"
                   /\ self.stmt_id = last.pre.next_id
                   /\ Cardinality(RedirectEvents) = 3
                   /\ s.peer = wire[e - 5].arg
              ELSE /\ e > 2
                   /\ wire[e - 2].k = "send" /\ wire[e - 2].t = "prepareStatement"
                   /\ wire[e - 1].k = "resp"
                   /\ RedirectEvents = {}

C2_Witness ==
    /\ last.op = "execute"
    /\ last.exc = "none"
    /\ self.use_ssl
    /\ \E i \in 1..Len(wire) : wire[i] = Ev("reconnect", "", <<2, 3109>>)
    /\ SentMsg("execute")

\* the data sequences passed to executemany have unequal lengths
UnequalLengths(data) ==
    data.given /\ Cardinality({Len(data.seqs[i]) : i \in 1..Len(data.seqs)}) > 1

\* C3, as the claim states it: an executemany call whose data sequences have
\* unequal lengths fails with ProgrammingError before any message of the call
\* has been sent; stated of the calls that do fail with ProgrammingError
C3_UnequalFailsBeforeAnySend ==
    (/\ last.op = "executemany"
     /\ UnequalLengths(last.data)
     /\ last.exc = "ProgrammingError") =>
        ~SentAnything

\* C4: at most one statement is open on the session; an execute started with
\* open_statement true sends closeStatement, and reads its reply, before it
\* sends getStatementId, and one started with no open statement sends
\* getStatementId first
C4_CloseBeforeNewStatement ==
    /\ Cardinality(hist.open_ids) <= 1
    /\ last.op \in ExecOps =>
          \A g \in Sent(wire, "getStatementId") :
              IF last.pre.open_statement
              THEN /\ g = 3
                   /\ wire[1] = Ev("send", "closeStatement", <<>>)
                   /\ wire[2].k = "resp"
              ELSE g = 1

C4_Witness ==
    /\ last.op = "execute"
    /\ last.pre.open_statement
    /\ last.exc = "none"
    /\ 1 \in Sent(wire, "closeStatement")
    /\ hist.open_ids = {self.stmt_id}

\* C5, as the claim states it: when both query type replies carry an empty
\* column list the statement is DML, closeStatement follows the queryTypeOut
\* reply at once, open_statement is false afterwards, and no fetch or put
\* message is sent for the statement, neither by the rest of the call nor by
\* a later call before the next execute
C5_DmlSendsNoFetchOrPut ==
    /\ (/\ last.op \in ExecOps
        /\ SentMsg("queryTypeOut")
        /\ last.env.qtOut = <<>>) =>
          \A q \in Sent(wire, "queryTypeOut") :
              /\ self.statement_type = "DML"
              /\ Len(wire) >= q + 3
              /\ wire[q + 2] = Ev("send", "closeStatement", <<>>)
              /\ ~self.open_statement
              /\ ~SentMsg("put")
              /\ ~SentMsg("fetch")
    /\ (/\ last.op \notin ExecOps
        /\ last.pre.statement_type = "DML"
        /\ ~last.pre.open_statement) =>
          (~SentMsg("put") /\ ~SentMsg("fetch"))

\* the schema attributes are those of the column list
SchemaFrom(column_list) ==
    /\ self.column_list = column_list
    /\ self.col_names = [i \in 1..Len(column_list) |-> column_list[i].name]
    /\ self.col_tvc = [i \in 1..Len(column_list) |-> column_list[i].isTrueVarChar]
    /\ self.col_nul = [i \in 1..Len(column_list) |-> column_list[i].nullable]
    /\ self.col_type_tups = [i \in 1..Len(column_list) |-> column_list[i].type]

DataCols ==
    IF last.data.as_rows THEN zip_rows(last.data.seqs) ELSE last.data.seqs
Chunk(j) ==
    col_chunk([c \in 1..Len(DataCols) |->
                  Drop(DataCols[c], (j - 1) * self.rows_per_flush)],
              self.rows_per_flush)
Packed(j) ==
    pack_columns(Chunk(j), self.col_types, self.col_sizes, self.col_nul, self.col_tvc)

\* the position in wire of the j-th put message of the call
PutAt(j) ==
    CHOOSE p \in Sent(wire, "put") :
        Cardinality({q \in Sent(wire, "put") : q < p}) = j - 1

\* the j-th put message carries the chunk's row count and is followed, with
\* no reply read in between, by a 10-byte non-text header whose length field
\* is the byte count of the packed columns, by the packed columns in schema
\* order, and then by the reading of one response
PutFrame(j) ==
    /\ Len(wire) >= PutAt(j) + Len(Packed(j)) + 2
    /\ wire[PutAt(j)] = Ev("send", "put", <<Len(Chunk(j)[1])>>)
    /\ wire[PutAt(j) + 1].k = "sendbin"
    /\ wire[PutAt(j) + 1].t = "header"
    /\ Len(wire[PutAt(j) + 1].arg) = 10
    /\ wire[PutAt(j) + 1].arg[2] = 2
    /\ FromLE(SubSeq(wire[PutAt(j) + 1].arg, 3, 10)) =
           SumSeq([c \in 1..Len(Packed(j)) |-> Len(Packed(j)[c])])
    /\ \A c \in 1..Len(Packed(j)) :
           wire[PutAt(j) + 1 + c] = Ev("sendbin", "column", Packed(j)[c])
    /\ wire[PutAt(j) + Len(Packed(j)) + 2].k = "resp"

\* C7: every flush chunk is sent as a put frame, and the call fails, sending
\* no further chunk, unless the response to the frame contains the put
\* acknowledgment token
C7_PutFrameAcknowledged ==
    last.op = "executemany" =>
        /\ Len(last.replies) = Cardinality(Sent(wire, "put"))
        /\ \A j \in 1..Len(last.replies) :
              /\ PutFrame(j)
              /\ ~Contains(last.replies[j], PUT_ACK) =>
                     (last.exc = "Exception" /\ j = Len(last.replies))
        /\ last.acked =
               Cardinality({j \in 1..Len(last.replies) :
                               Contains(last.replies[j], PUT_ACK)})

C7_Witness ==
    /\ last.op = "executemany"
    /\ last.exc = "none"
    /\ Len(last.replies) = 2
    /\ last.replies[2] # PUT_ACK
    /\ last.acked = 2

\* C7, as the claim states it: the call fails unless the response to a put
\* frame is the put acknowledgment token
C7_FailsUnlessReplyIsToken ==
    last.op = "executemany" =>
        \A j \in 1..Len(last.replies) :
            last.replies[j] # PUT_ACK => last.exc # "none"

\* C8, as the claim states it: a fetchone, fetchmany or fetchall call raises
\* ProgrammingError and sends no fetch message when no statement has been
\* executed yet, when the statement is a DML statement that was closed at
\* once, and when it is an open Insert statement
C8_FetchNeedsOpenSelect ==
    (/\ last.op \in FetchOps
     /\ WasUsable
     /\ \/ last.pre.statement_type = "unset" /\ ~last.pre.open_statement
        \/ last.pre.statement_type = "DML" /\ ~last.pre.open_statement
        \/ last.pre.statement_type = "INSERT" /\ last.pre.open_statement) =>
        (last.exc = "ProgrammingError" /\ ~SentMsg("fetch"))

\* the call received the fetch reply that reports 0 rows
ZeroRowsReply == last.op \in FetchOps /\ hist.zero_seen /\ ~last.pre.zero_seen

\* C9: the fetch reply that reports 0 rows is followed by closeStatement and
\* its reply and by nothing else (no binary header, no column bytes are
\* read), and leaves open_statement false and more_to_fetch false; and
\* more_to_fetch, once false, stays false under every call but an execute
C9_ZeroRowsCloses ==
    /\ ZeroRowsReply =>
          \E f \in Sent(wire, "fetch") :
              /\ Len(wire) = f + 3
              /\ wire[f + 1].k = "resp"
              /\ wire[f + 2] = Ev("send", "closeStatement", <<>>)
              /\ wire[f + 3].k = "resp"
              /\ ~self.open_statement
              /\ self.more_to_fetch = "False"
    /\ (last.pre.more_to_fetch = "False" /\ last.op \notin ExecOps) =>
          self.more_to_fetch = "False"

C9_Witness ==
    /\ last.op = "fetchall"
    /\ ZeroRowsReply
    /\ last.exc = "none"
    /\ Len(last.ret.rows) = 3
    /\ self.more_to_fetch = "False"

\* C10, as the claim states it: a close or close_connection call on a session
\* an earlier call has closed (its socket released) raises ProgrammingError,
\* sends neither closeStatement nor closeConnection, and leaves the closed
\* flag and the shared base connection flag as they were
C10_SecondCloseRejected ==
    (last.op \in CloseOps /\ ~last.pre.sock_open) =>
        /\ last.exc = "ProgrammingError"
        /\ ~SentMsg("closeStatement")
        /\ ~SentMsg("closeConnection")
        /\ self.closed = last.pre.closed
        /\ base_conn_open = last.pre.bco

\* C11, as the claim states it: close_statement on a session that close has
\* closed raises ProgrammingError
C11_CloseStatementOnClosedSession ==
    (last.op = "close_statement" /\ last.pre.closed) =>
        last.exc = "ProgrammingError"

\* the transport failures of a lost connection
TransportFailures == {"BrokenPipeError", "ConnectionRefusedError"}

\* the connects the call made to open the connection anew
ReconnectAttempts == {i \in 1..Len(wire) : wire[i].k = "connect"}

\* C12, as the claim states it: a call that a lost transport makes fail has
\* made reconnect_attempts attempts to open the connection anew before the
\* failure reaches the caller
C12_RetriesBeforeFailure ==
    last.exc \in TransportFailures =>
        Cardinality(ReconnectAttempts) = reconnect_attempts

\* the number of flush chunks of the data of the call
ChunkCount ==
    (Len(DataCols[1]) + self.rows_per_flush - 1) \div self.rows_per_flush

-----------------------------------------------------------------------------
(* The worker pool of ColumnBuffer.pack_columns (lines 354-369).  pool.map *)
(* hands one task per column to the workers; the workers finish in any     *)
(* order, each with a staging buffer of its own (line 384); map blocks     *)
(* until every task is finished and returns the results in the order of    *)
(* its iterable.                                                           *)

\* the chunks put on the bench: three columns of two rows each, described as
\* the schema describes them (col_types, col_sizes, col_nul, col_tvc)
PoolSchema ==
    [col_types |-> <<"ftInt", "ftBlob", "ftVarchar">>,
     col_sizes |-> <<4, 0, 2>>,
     col_nul   |-> <<TRUE, TRUE, FALSE>>,
     col_tvc   |-> <<FALSE, TRUE, FALSE>>]

PoolChunks ==
    <<<<<<IntCell(1), NoneCell>>, <<StrCell(<<120>>), NoneCell>>,
       <<StrCell(<<97, 98>>), StrCell(<<99>>)>>>>,
     <<<<IntCell(258), IntCell(3)>>, <<StrCell(<<>>), StrCell(<<233>>)>>,
       <<StrCell(<<>>), StrCell(<<100, 101, 102>>)>>>>,
     <<<<NoneCell, NoneCell>>, <<StrCell(<<120, 121>>), StrCell(<<122>>)>>,
       <<NoneCell, StrCell(<<32>>)>>>>,
     <<<<IntCell(-1), IntCell(0)>>, <<NoneCell, NoneCell>>,
       <<StrCell(<<65>>), StrCell(<<66>>)>>>>,
     \* a str in the ftInt column: its worker raises
     <<<<StrCell(<<49>>), IntCell(2)>>, <<StrCell(<<120>>), NoneCell>>,
       <<StrCell(<<97>>), StrCell(<<98>>)>>>>>>

\* line 356: the tasks, one per column, numbered as zip numbers them
pool_params(cols) ==
    1..pack_columns_width(cols, PoolSchema.col_types, PoolSchema.col_sizes, PoolSchema.col_nul, PoolSchema.col_tvc)

\* what pool.map returns when the results were produced in the order
\* finished: the results in the order of the tasks handed in
map_as_completed(out, finished) == [k \in 1..Len(finished) |-> out[finished[k]]]

map_results(out, finished) == [i \in 1..Len(finished) |-> out[i]]

PoolInit ==
    /\ Connected(FALSE, TRUE)
    /\ \E k \in 1..Len(PoolChunks) : LET cols == PoolChunks[k] IN
           bench = [unit |-> "pool", cols |-> cols, stage |-> "packing",
                    pending |-> pool_params(cols), finished |-> <<>>,
                    failed |-> {},
                    out |-> [i \in pool_params(cols) |-> <<>>],
                    packed_cols |-> <<>>, sent |-> <<>>]

\* one worker finishes its column (lines 380-527)
WorkerFinishes ==
    /\ bench.unit = "pool"
    /\ bench.stage = "packing"
    /\ \E i \in bench.pending :
           LET ok == pack_accepts(bench.cols[i], PoolSchema.col_types[i], PoolSchema.col_sizes[i],
                                  PoolSchema.col_nul[i], PoolSchema.col_tvc[i])
           IN  bench' = [bench EXCEPT
                   !.pending = @ \ {i},
                   !.finished = Append(@, i),
                   !.failed = IF ok THEN @ ELSE @ \cup {i},
                   !.out[i] = IF ok
                              THEN _pack_column(bench.cols[i], PoolSchema.col_types[i],
                                       PoolSchema.col_sizes[i], PoolSchema.col_nul[i], PoolSchema.col_tvc[i])
                              ELSE <<>>]
    /\ UNCHANGED <<self, s, srv, base_conn_open, wire, last, hist>>

\* lines 360-369: map returns once every task is finished; an exception of
\* a worker is raised again as ProgrammingError
MapReturns ==
    /\ bench.unit = "pool"
    /\ bench.stage = "packing"
    /\ bench.pending = {}
    /\ bench' = IF bench.failed # {}
                THEN [bench EXCEPT !.stage = "ProgrammingError"]
                ELSE [bench EXCEPT !.stage = "packed",
                          !.packed_cols = map_results(bench.out, bench.finished)]
    /\ UNCHANGED <<self, s, srv, base_conn_open, wire, last, hist>>

\* lines 837-838: the packed columns go out one after another
SendPacked ==
    /\ bench.unit = "pool"
    /\ bench.stage = "packed"
    /\ bench' = [bench EXCEPT !.stage = "sent",
                     !.sent = Flatten(bench.packed_cols)]
    /\ UNCHANGED <<self, s, srv, base_conn_open, wire, last, hist>>

PoolNext ==
    \/ WorkerFinishes
    \/ MapReturns
    \/ SendPacked

PoolSpec == PoolInit /\ [][PoolNext]_vars

-----------------------------------------------------------------------------
(* The read loop of SQSocket.receive (lines 265-287), one recv_into at a   *)
(* time.  The peer delivers the bytes of bench.stream in order and then    *)
(* closes the connection; a recv_into gives at least one and at most       *)
(* len(view) of the bytes not yet delivered, and 0 once the peer has       *)
(* closed.  No caller passes a timeout.                                    *)

\* the longest read asked for, and the most bytes the peer delivers
MaxBytes == 4

\* the bytes the peer delivers before it closes, all different
PeerStream(count) == [i \in 1..count |-> 64 + i]

\* line 280: view = view[received:], as the length left to fill
view_returned_at_once(view_len, received) == 0

view_advanced(view_len, received) == view_len - received

\* lines 268-270
RecvInit ==
    /\ Connected(FALSE, TRUE)
    /\ \E byte_num \in 0..MaxBytes, count \in 0..(MaxBytes + 1) :
           bench = [unit |-> "receive", byte_num |-> byte_num,
                    stream |-> PeerStream(count), delivered |-> 0,
                    data |-> [i \in 1..byte_num |-> 0],
                    view_len |-> byte_num, total |-> 0,
                    reads |-> 0, received |-> -1, status |-> "reading"]

\* lines 275-281: a recv_into that gives received >= 1 bytes, written at
\* the front of the view
RecvInto ==
    /\ bench.unit = "receive"
    /\ bench.status = "reading"
    /\ bench.view_len > 0
    /\ \E received \in 1..Min(bench.view_len,
                              Len(bench.stream) - bench.delivered) :
           bench' = [bench EXCEPT
               !.data = [i \in 1..bench.byte_num |->
                            IF i > bench.total /\ i <= bench.total + received
                            THEN bench.stream[bench.delivered + (i - bench.total)]
                            ELSE @[i]],
               !.delivered = @ + received,
               !.view_len = view_advanced(@, received),
               !.total = @ + received,
               !.reads = @ + 1,
               !.received = received]
    /\ UNCHANGED <<self, s, srv, base_conn_open, wire, last, hist>>

\* lines 277-279: the peer has closed, recv_into gives 0
RecvZero ==
    /\ bench.unit = "receive"
    /\ bench.status = "reading"
    /\ bench.view_len > 0
    /\ bench.delivered = Len(bench.stream)
    /\ bench' = [bench EXCEPT !.status = "ConnectionRefusedError",
                     !.reads = @ + 1, !.received = 0]
    /\ UNCHANGED <<self, s, srv, base_conn_open, wire, last, hist>>

\* lines 275, 287: the view is empty, the loop ends and data is returned
ReceiveReturns ==
    /\ bench.unit = "receive"
    /\ bench.status = "reading"
    /\ bench.view_len = 0
    /\ bench' = [bench EXCEPT !.status = "returned"]
    /\ UNCHANGED <<self, s, srv, base_conn_open, wire, last, hist>>

RecvNext ==
    \/ RecvInto
    \/ RecvZero
    \/ ReceiveReturns

\* the thread in receive keeps running
RecvSpec == RecvInit /\ [][RecvNext]_vars /\ WF_vars(RecvNext)

ReceiveExact ==
    bench.unit = "receive" =>
        /\ bench.status = "returned" =>
               /\ bench.total = bench.byte_num
               /\ bench.data = Take(bench.stream, bench.byte_num)
        /\ (bench.received = 0) <=> (bench.status = "ConnectionRefusedError")
        /\ bench.status = "ConnectionRefusedError" =>
               bench.total < bench.byte_num
        /\ bench.reads <= bench.total + 1
        /\ bench.status = "returned" => bench.reads <= bench.byte_num

\* C15: receive(n) returns only with exactly the n bytes that arrived first,
\* in arrival order; a read of 0 bytes before that raises the connection
\* error at once; and the loop ends after at most n reads of at least one
\* byte each
C15_ReceiveNeverShort ==
    /\ []ReceiveExact
    /\ <>(bench.unit = "receive" /\ bench.status # "reading")

\* four bytes returned after three partial reads
C15_Witness ==
    /\ bench.unit = "receive"
    /\ bench.status = "returned"
    /\ bench.byte_num = 4
    /\ bench.reads = 3

-----------------------------------------------------------------------------
(* The column codec on its own: a column of values is packed by            *)
(* _pack_column (lines 380-527), the bytes are cut into the ranges a fetch *)
(* reply carries for such a column (lines 722-748: null bitmap, length     *)
(* array, payload) and parsed by _parse_fetched_cols (lines 754-801) under *)
(* the same descriptor.                                                    *)

\* the longest column put on the bench
MaxRows == 3

\* the descriptors: type tag, byte width, isTrueVarChar
CodecTypes ==
    << <<"ftBool", 1, FALSE>>, <<"ftUByte", 1, FALSE>>, <<"ftShort", 2, FALSE>>,
       <<"ftInt", 4, FALSE>>, <<"ftLong", 8, FALSE>>, <<"ftDate", 4, FALSE>>,
       <<"ftDateTime", 8, FALSE>>, <<"ftVarchar", 5, FALSE>>,
       <<"ftBlob", 0, TRUE>> >>

\* values of each type, within the type's range; the bounded text has a
\* value longer than the column is wide and one that ends in a blank, the
\* variable text one of 10 bytes
CodecValues(col_type) ==
    CASE col_type = "ftBool" -> <<IntCell(1), IntCell(0)>>
      [] col_type = "ftUByte" -> <<IntCell(0), IntCell(255), IntCell(7)>>
      [] col_type = "ftShort" ->
             <<IntCell(0 - 32768), IntCell(32767), IntCell(258)>>
      [] col_type = "ftInt" ->
             <<IntCell(1), IntCell(3), IntCell(0 - 2147483647)>>
      [] col_type = "ftLong" ->
             <<IntCell(0 - 2), IntCell(2147483647), IntCell(65536)>>
      [] col_type = "ftDate" ->
             <<DateCell(<<2024, 2, 29>>), DateCell(<<1, 1, 1>>),
               DateCell(<<9999, 12, 31>>)>>
      [] col_type = "ftDateTime" ->
             <<DateTimeCell(<<2024, 2, 29, 23, 59, 59, 0>>),
               DateTimeCell(<<1900, 1, 1, 0, 0, 0, 0>>),
               DateTimeCell(<<1999, 12, 31, 12, 30, 15, 5000>>)>>
      [] col_type = "ftVarchar" ->
             <<StrCell(<<97, 98>>), StrCell(<<>>), StrCell(<<120, 121, 122>>),
               StrCell(<<97, 98, 99, 100, 101, 102, 103>>), StrCell(<<97, 32>>)>>
      [] col_type = "ftBlob" ->
             <<StrCell(<<120>>), StrCell(<<>>), StrCell(<<233, 121>>),
               StrCell([i \in 1..10 |-> 96 + i])>>

\* a column: the values picked, None where 0 is picked
CodecColumn(col_type, pick) ==
    [i \in 1..Len(pick) |->
        IF pick[i] = 0 THEN NoneCell ELSE CodecValues(col_type)[pick[i]]]

\* lines 722-729, 737-742: the ranges of a packed column of rows values
packed_ranges(packed, rows, nullable, tvc) ==
    LET b == IF nullable THEN rows ELSE 0
        l == IF tvc THEN 4 * rows ELSE 0
    IN  (IF nullable THEN <<Slice(packed, 0, b)>> ELSE <<>>)
        \o (IF tvc THEN <<Slice(packed, b, b + l)>> ELSE <<>>)
        \o <<Slice(packed, b + l, Len(packed))>>

CodecInit ==
    /\ Connected(FALSE, TRUE)
    /\ \E t \in 1..Len(CodecTypes), nullable \in BOOLEAN, rows \in 1..MaxRows :
       \E pick \in [1..rows ->
                       (IF nullable THEN {0} ELSE {})
                       \cup (1..Len(CodecValues(CodecTypes[t][1])))] :
           bench = [unit |-> "codec", stage |-> "values",
                    col |-> CodecColumn(CodecTypes[t][1], pick),
                    col_type |-> CodecTypes[t][1], size |-> CodecTypes[t][2],
                    nullable |-> nullable, tvc |-> CodecTypes[t][3],
                    packed |-> <<>>, parsed |-> <<>>, buf_len |-> 0,
                    written |-> 0]

\* _pack_column
PackColumn ==
    /\ bench.unit = "codec"
    /\ bench.stage = "values"
    /\ bench' = [bench EXCEPT !.stage = "packed",
                     !.packed = _pack_column(bench.col, bench.col_type,
                                    bench.size, bench.nullable, bench.tvc),
                     !.buf_len = buf_map_len_at_write(bench.col, bench.col_type,
                                     bench.size, bench.nullable),
                     !.written = Len(pack_written(bench.col, bench.col_type,
                                         bench.size, bench.nullable, bench.tvc))]
    /\ UNCHANGED <<self, s, srv, base_conn_open, wire, last, hist>>

\* the entries of the column as _fetch files them, then _parse_fetched_cols
ParseColumn ==
    /\ bench.unit = "codec"
    /\ bench.stage = "packed"
    /\ bench' = [bench EXCEPT !.stage = "parsed",
                     !.parsed =
                        parse_column(
                            column_entries(
                                packed_ranges(bench.packed, Len(bench.col),
                                              bench.nullable, bench.tvc),
                                <<bench.col_type, bench.size, 0>>,
                                bench.nullable, bench.tvc),
                            <<bench.col_type, bench.size, 0>>,
                            bench.nullable, bench.tvc)]
    /\ UNCHANGED <<self, s, srv, base_conn_open, wire, last, hist>>

CodecNext ==
    \/ PackColumn
    \/ ParseColumn

CodecSpec == CodecInit /\ [][CodecNext]_vars

\* two values that are both None, or equal values of the same Python type
SameCell(a, b) == a.ty = b.ty /\ (a.ty # "None" => a.v = b.v)

SameColumn(a, b) ==
    Len(a) = Len(b) /\ \A i \in 1..Len(a) : SameCell(a[i], b[i])

\* the bounded text of the column fits its width and ends in no blank
BoundedTextFits ==
    \A i \in 1..Len(bench.col) :
        (bench.col_type = "ftVarchar" /\ bench.col[i].ty = "str") =>
            /\ Len(bench.col[i].v) <= bench.size
            /\ rstrip_nul_space(bench.col[i].v) = bench.col[i].v

\* C16: a column packed by _pack_column and parsed under the same
\* descriptor comes back as the values packed, None exactly at the None
\* rows, for every supported type (bounded text that fits its column)
C16_PackParseRoundTrip ==
    (bench.unit = "codec" /\ bench.stage = "parsed" /\ BoundedTextFits) =>
        SameColumn(bench.parsed, bench.col)

\* the round trip of the columns whose descriptor is not a variable text
\* that is not nullable, whose datetimes carry no microseconds and whose
\* bounded text fits the column and does not end in a blank
RoundTripHolds ==
    (bench.unit = "codec" /\ bench.stage = "parsed"
     /\ (bench.tvc => bench.nullable)
     /\ BoundedTextFits
     /\ \A i \in 1..Len(bench.col) :
            bench.col[i].ty = "datetime" => bench.col[i].v[7] = 0) =>
        SameColumn(bench.parsed, bench.col)

-----------------------------------------------------------------------------
(* The calendar codec on its own (lines 88-146): a date or a datetime is   *)
(* encoded and the code is decoded again.                                  *)

\* the valid Gregorian dates of a year
DaysIn(year, month) ==
    IF month = 2
    THEN (IF year % 4 = 0 /\ (year % 100 # 0 \/ year % 400 = 0) THEN 29 ELSE 28)
    ELSE IF month \in {4, 6, 9, 11} THEN 30 ELSE 31

\* the years whose every date is encoded: the ends of the range, leap and
\* common years, century years of both kinds
CalendarYears ==
    (1..8) \cup {100, 400, 1582} \cup (1896..1904) \cup (1996..2004)
    \cup {2023, 2024} \cup (9996..9999)

\* the times of day joined to the first and last day of each month
CalendarTimes == {0, 12, 23} \X {0, 59} \X {0, 59} \X {0, 1, 999}

CalendarInit ==
    /\ Connected(FALSE, TRUE)
    /\ \/ \E year \in CalendarYears, month \in 1..12 :
          \E day \in 1..DaysIn(year, month) :
              bench = [unit |-> "calendar", kind |-> "date", stage |-> "value",
                       value |-> <<year, month, day>>,
                       code |-> <<>>, back |-> <<>>]
       \/ \E year \in {1, 2024, 9999}, month \in 1..12, time \in CalendarTimes :
          \E day \in {1, DaysIn(year, month)} :
              bench = [unit |-> "calendar", kind |-> "datetime",
                       stage |-> "value",
                       value |-> <<year, month, day>> \o time,
                       code |-> <<>>, back |-> <<>>]

\* date_tuple_to_int(year, month, day)
EncodeDate ==
    /\ bench.unit = "calendar"
    /\ bench.kind = "date"
    /\ bench.stage = "value"
    /\ bench' = [bench EXCEPT !.stage = "encoded",
                     !.code = <<date_tuple_to_int(bench.value[1], bench.value[2],
                                                  bench.value[3])>>]
    /\ UNCHANGED <<self, s, srv, base_conn_open, wire, last, hist>>

\* sq_date_to_tuple(code)
DecodeDate ==
    /\ bench.unit = "calendar"
    /\ bench.kind = "date"
    /\ bench.stage = "encoded"
    /\ bench' = [bench EXCEPT !.stage = "decoded",
                     !.back = sq_date_to_tuple(bench.code[1])]
    /\ UNCHANGED <<self, s, srv, base_conn_open, wire, last, hist>>

\* datetime_tuple_to_long(year, month, day, hour, minute, second, ms * 1000)
EncodeDateTime ==
    /\ bench.unit = "calendar"
    /\ bench.kind = "datetime"
    /\ bench.stage = "value"
    /\ bench' = [bench EXCEPT !.stage = "encoded",
                     !.code = datetime_tuple_to_long(
                                  bench.value[1], bench.value[2], bench.value[3],
                                  bench.value[4], bench.value[5], bench.value[6],
                                  bench.value[7] * 1000)]
    /\ UNCHANGED <<self, s, srv, base_conn_open, wire, last, hist>>

\* sq_datetime_to_tuple(code)
DecodeDateTime ==
    /\ bench.unit = "calendar"
    /\ bench.kind = "datetime"
    /\ bench.stage = "encoded"
    /\ bench' = [bench EXCEPT !.stage = "decoded",
                     !.back = sq_datetime_to_tuple(bench.code)]
    /\ UNCHANGED <<self, s, srv, base_conn_open, wire, last, hist>>

CalendarNext ==
    \/ EncodeDate
    \/ DecodeDate
    \/ EncodeDateTime
    \/ DecodeDateTime

CalendarSpec == CalendarInit /\ [][CalendarNext]_vars

\* C17: for a valid Gregorian date of the years 1..9999,
\* sq_date_to_tuple(date_tuple_to_int(y, m, d)) is (y, m, d)
C17_DateRoundTrip ==
    (bench.unit = "calendar" /\ bench.kind = "date" /\ bench.stage = "decoded") =>
        bench.back = bench.value

\* the leap day of a century leap year, and the last day of the range
C17_Witness ==
    /\ bench.unit = "calendar"
    /\ bench.kind = "date"
    /\ bench.stage = "decoded"
    /\ bench.value \in {<<2000, 2, 29>>, <<9999, 12, 31>>}
    /\ bench.back = bench.value

\* C18: for a valid date and time of day,
\* sq_datetime_to_tuple(datetime_tuple_to_long(y, m, d, h, mi, s, ms * 1000))
\* is (y, m, d, h, mi, s, ms); the high word of the long is the date integer
\* and the low word the millisecond of the day, which stays below a day's
\* milliseconds (and so below 2^32) and never carries into the high word
C18_DateTimeRoundTrip ==
    (bench.unit = "calendar" /\ bench.kind = "datetime") =>
        /\ bench.stage \in {"encoded", "decoded"} =>
              /\ bench.code[1] = date_tuple_to_int(bench.value[1], bench.value[2],
                                                   bench.value[3])
              /\ bench.code[2] = bench.value[4] * 3600000 + bench.value[5] * 60000
                                 + bench.value[6] * 1000 + bench.value[7]
              /\ bench.code[2] >= 0
              /\ bench.code[2] < 24 * 3600 * 1000
        /\ bench.stage = "decoded" => bench.back = bench.value

\* the last millisecond of the last day of the range
C18_Witness ==
    /\ bench.unit = "calendar"
    /\ bench.kind = "datetime"
    /\ bench.stage = "decoded"
    /\ bench.value = <<9999, 12, 31, 23, 59, 59, 999>>
    /\ bench.back = bench.value

\* the fixed-width integer types
NumericTypes == {"ftUByte", "ftShort", "ftInt", "ftLong"}

\* a nullable column of integers has been packed
PackedNullableNumeric ==
    /\ bench.unit = "codec"
    /\ bench.stage \in {"packed", "parsed"}
    /\ bench.nullable
    /\ bench.col_type \in NumericTypes

\* C19: the buffer of a packed nullable fixed-width numeric column of n rows
\* starts with the n bytes of the null bitmap, 1 exactly at the None rows,
\* followed by the n encodings of the values in row order, 0 at the None rows
C19_BitmapThenValues ==
    PackedNullableNumeric =>
        LET n == Len(bench.col)
            w == bench.size
        IN  /\ Len(bench.packed) = n + n * w
            /\ \A i \in 1..n :
                  /\ bench.packed[i] = (IF bench.col[i].ty = "None" THEN 1 ELSE 0)
                  /\ SubSeq(bench.packed, n + (i - 1) * w + 1, n + i * w)
                         = LE(IF bench.col[i].ty = "None" THEN 0
                              ELSE bench.col[i].v, w)

\* the nullable Int column [1, None, 3]
C19_Witness ==
    /\ PackedNullableNumeric
    /\ bench.col_type = "ftInt"
    /\ SameColumn(bench.col, <<IntCell(1), NoneCell, IntCell(3)>>)
    /\ bench.packed = <<0, 1, 0,  1, 0, 0, 0,  0, 0, 0, 0,  3, 0, 0, 0>>

\* a variable text column has been packed
PackedVariableText ==
    /\ bench.unit = "codec"
    /\ bench.stage \in {"packed", "parsed"}
    /\ bench.tvc

\* the UTF-8 bytes of the value of one row, none for None
RowBytes(cell) == IF cell.ty = "None" THEN <<>> ELSE encode_utf8(cell.v)

\* C20: the buffer of a packed variable text column is the null bitmap when
\* the column is nullable, then one 4-byte length per row, the UTF-8 byte
\* length of the row's value and 0 for "" and for None, then the encoded
\* values one after another; None and "" differ in the bitmap only
C20_LengthsThenPayload ==
    PackedVariableText =>
        LET n      == Len(bench.col)
            b      == IF bench.nullable THEN n ELSE 0
            blanks == [i \in 1..n |->
                          IF bench.col[i].ty = "None" THEN StrCell(<<>>)
                          ELSE bench.col[i]]
        IN  /\ bench.nullable =>
                  \A i \in 1..n :
                      bench.packed[i] = (IF bench.col[i].ty = "None" THEN 1 ELSE 0)
            /\ \A i \in 1..n :
                  SubSeq(bench.packed, b + 4 * (i - 1) + 1, b + 4 * i)
                      = LE(Len(RowBytes(bench.col[i])), 4)
            /\ Drop(bench.packed, b + 4 * n)
                   = Flatten([i \in 1..n |-> RowBytes(bench.col[i])])
            /\ Drop(bench.packed, b)
                   = Drop(_pack_column(blanks, bench.col_type, bench.size,
                                       bench.nullable, bench.tvc), b)

\* the nullable column ["x", "", None]
C20_Witness ==
    /\ PackedVariableText
    /\ bench.nullable
    /\ SameColumn(bench.col, <<StrCell(<<120>>), StrCell(<<>>), NoneCell>>)
    /\ bench.packed = <<0, 0, 1,  1, 0, 0, 0,  0, 0, 0, 0,  0, 0, 0, 0,  120>>

\* a bounded text column has been packed
PackedBoundedText ==
    /\ bench.unit = "codec"
    /\ bench.stage \in {"packed", "parsed"}
    /\ bench.col_type = "ftVarchar"

\* the w bytes of row i of the payload
Span(i) ==
    LET b == IF bench.nullable THEN Len(bench.col) ELSE 0
    IN  SubSeq(bench.packed, b + (i - 1) * bench.size + 1, b + i * bench.size)

\* C21: a packed bounded text column of width w carries exactly w bytes per
\* row, the encoded value cut to w bytes and padded with spaces on the
\* right, w spaces for None; parsing cuts the payload into spans of w bytes
\* and strips trailing NUL and whitespace, so that a value of at most w
\* bytes that does not end in whitespace comes back as itself
C21_BoundedTextSpans ==
    PackedBoundedText =>
        LET n == Len(bench.col)
            w == bench.size
            b == IF bench.nullable THEN n ELSE 0
        IN  /\ Len(bench.packed) = b + n * w
            /\ \A i \in 1..n :
                  LET value == IF bench.col[i].ty = "None" THEN <<>>
                               ELSE bench.col[i].v
                      kept  == IF Len(value) <= w THEN Len(value) ELSE w
                  IN  /\ \A k \in 1..w :
                            Span(i)[k] = (IF k <= kept THEN value[k] ELSE 32)
                      /\ (/\ bench.stage = "parsed"
                          /\ bench.col[i].ty = "str"
                          /\ Len(value) <= w
                          /\ (value = <<>> \/ value[Len(value)] \notin
                                                  ({0} \cup (9..13) \cup (28..32)))) =>
                             /\ Len(bench.parsed) = n
                             /\ SameCell(bench.parsed[i], bench.col[i])

\* "ab" in a column five bytes wide, packed as "ab   " and parsed back;
\* the value of seven bytes next to it is cut to five
C21_Witness ==
    /\ PackedBoundedText
    /\ bench.stage = "parsed"
    /\ ~bench.nullable
    /\ Len(bench.col) = 2
    /\ bench.col[1].v = <<97, 98>>
    /\ bench.col[2].v = <<97, 98, 99, 100, 101, 102, 103>>
    /\ bench.packed = <<97, 98, 32, 32, 32,  97, 98, 99, 100, 101>>
    /\ bench.parsed[1].v = <<97, 98>>

-----------------------------------------------------------------------------
(* The message header on its own: generate_message_header (lines 310-314)  *)
(* writes it, get_response (lines 293-299) reads it.                       *)

\* the limbs the lengths are made of: 2^31 is <<0, 32768, 0, 0>>, 2^40 is
\* <<0, 0, 256, 0>>; the top limb keeps the length below 2^63
HeaderLengths ==
    {0, 1, 256, 32768} \X {0, 1, 256, 32768} \X {0, 1, 256, 65535} \X {0, 1, 32767}

HeaderInit ==
    /\ Connected(FALSE, TRUE)
    /\ \E data_length \in HeaderLengths, is_text_msg \in BOOLEAN :
           bench = [unit |-> "header", stage |-> "length",
                    data_length |-> data_length, is_text_msg |-> is_text_msg,
                    header |-> <<>>, accepted |-> FALSE, message_len |-> <<>>]

\* generate_message_header(data_length, is_text_msg)
GenerateHeader ==
    /\ bench.unit = "header"
    /\ bench.stage = "length"
    /\ bench' = [bench EXCEPT !.stage = "packed",
                     !.header = generate_message_header(bench.data_length,
                                                        bench.is_text_msg)]
    /\ UNCHANGED <<self, s, srv, base_conn_open, wire, last, hist>>

\* get_response on the ten bytes
ReadHeader ==
    /\ bench.unit = "header"
    /\ bench.stage = "packed"
    /\ bench' = [bench EXCEPT !.stage = "read",
                     !.accepted = protocol_accepted(bench.header),
                     !.message_len = message_len(bench.header)]
    /\ UNCHANGED <<self, s, srv, base_conn_open, wire, last, hist>>

HeaderNext ==
    \/ GenerateHeader
    \/ ReadHeader

HeaderSpec == HeaderInit /\ [][HeaderNext]_vars

\* C22: a header is exactly 10 bytes, the version, the flag 1 (text) or 2
\* and the length in 8 bytes; read as get_response reads it, the length
\* comes back exactly, also at and beyond 2^31
C22_HeaderKeepsLength ==
    (bench.unit = "header" /\ bench.stage \in {"packed", "read"}) =>
        /\ Len(bench.header) = 10
        /\ bench.header[1] = PROTOCOL_VERSION
        /\ bench.header[2] = (IF bench.is_text_msg THEN 1 ELSE 2)
        /\ \A i \in 3..10 : bench.header[i] \in 0..255
        /\ bench.stage = "read" =>
               /\ bench.accepted
               /\ bench.message_len = bench.data_length

\* the length 2^40 has been read back
C22_Witness ==
    /\ bench.unit = "header"
    /\ bench.stage = "read"
    /\ bench.data_length = <<0, 0, 256, 0>>
    /\ bench.message_len = <<0, 0, 256, 0>>
    /\ bench.header[8] = 1

\* the call executed an Insert statement and went on to its data
InsertReached ==
    /\ last.op = "executemany"
    /\ last.data.given
    /\ ~UnequalLengths(last.data)
    /\ SentMsg("queryTypeIn")
    /\ last.env.qtIn # <<>>

\* chunk j holds a value its column's type does not take
Refused(j) ==
    ~pack_columns_accepts(Chunk(j), self.col_types, self.col_sizes,
                          self.col_nul, self.col_tvc)

\* the call came to pack chunk j, the first chunk with such a value
RefusedAt(j) ==
    /\ InsertReached
    /\ j \in 1..ChunkCount
    /\ Refused(j)
    /\ \A k \in 1..(j - 1) : ~Refused(k)
    /\ last.acked = j - 1

\* C23: an executemany call that comes to a chunk with a value its column's
\* declared type does not take fails with a ProgrammingError that names the
\* column, counted from 1, and the declared type, and sends no put message
\* for that chunk
C23_PackErrorNamesColumn ==
    \A j \in 1..3 :
        RefusedAt(j) =>
            /\ last.exc = "ProgrammingError"
            /\ last.msg = worker_error(Chunk(j), self.col_types, self.col_sizes,
                                       self.col_nul, self.col_tvc)
            /\ Cardinality(Sent(wire, "put")) = j - 1

\* what holds of such a call: a ProgrammingError, and no put for the chunk
PackErrorIsGeneric ==
    \A j \in 1..3 :
        RefusedAt(j) =>
            /\ last.exc = "ProgrammingError"
            /\ last.msg = pack_columns_error("")
            /\ Cardinality(Sent(wire, "put")) = j - 1

-----------------------------------------------------------------------------
(* Connection._attempt_reconnect on its own (lines 616-629), one step of   *)
(* its loop at a time.  The server answers each step as it pleases: the    *)
(* connect of _open_connection is accepted, refused (ConnectionRefused-    *)
(* Error, line 207) or times out (Exception, line 212); connect_database   *)
(* gets its reply, reads 0 bytes (ConnectionRefusedError, line 279) or     *)
(* gets an error reply (ProgrammingError, line 610).                       *)

\* the largest reconnect_attempts a session is opened with
MaxAttempts == 3

\* line 618, for attempt in range(self.reconnect_attempts): one attempt too many
range_has_inclusive(attempt, attempts) == attempt <= attempts

\* line 618: whether range(attempts) holds the attempt, counted from 0
range_has(attempt, attempts) == attempt < attempts

ReconnectInit ==
    /\ Connected(FALSE, TRUE)
    /\ \E attempts \in 0..MaxAttempts, interval \in {0, 1, 3} :
           bench = [unit |-> "reconnect", reconnect_attempts |-> attempts,
                    reconnect_interval |-> interval, attempt |-> 0,
                    pc |-> "for", steps |-> <<>>, slept |-> 0,
                    exc |-> "none"]

\* line 619: time.sleep(self.reconnect_interval)
Sleep ==
    /\ bench.unit = "reconnect"
    /\ bench.pc = "for"
    /\ range_has(bench.attempt, bench.reconnect_attempts)
    /\ bench' = [bench EXCEPT !.pc = "slept", !.steps = Append(@, "sleep"),
                              !.slept = @ + bench.reconnect_interval]
    /\ UNCHANGED <<self, s, srv, base_conn_open, wire, last, hist>>

\* line 621: _open_connection, and the except clause of line 623
OpenConnection ==
    /\ bench.unit = "reconnect"
    /\ bench.pc = "slept"
    /\ \E outcome \in {"accepted", "refused", "timeout"} :
           bench' = [bench EXCEPT
               !.steps = Append(@, "_open_connection"),
               !.pc = CASE outcome = "accepted" -> "opened"
                        [] outcome = "refused" -> "for"
                        [] OTHER -> "raised",
               !.attempt = IF outcome = "refused" THEN @ + 1 ELSE @,
               !.exc = IF outcome = "timeout" THEN "Exception" ELSE @]
    /\ UNCHANGED <<self, s, srv, base_conn_open, wire, last, hist>>

\* line 622: connect_database, the except clause of line 623 and the else
\* clause of line 625
ConnectDatabase ==
    /\ bench.unit = "reconnect"
    /\ bench.pc = "opened"
    /\ \E outcome \in {"connected", "refused", "error"} :
           bench' = [bench EXCEPT
               !.steps = Append(@, "connect_database"),
               !.pc = CASE outcome = "connected" -> "returned"
                        [] outcome = "refused" -> "for"
                        [] OTHER -> "raised",
               !.attempt = IF outcome = "refused" THEN @ + 1 ELSE @,
               !.exc = IF outcome = "error" THEN "ProgrammingError" ELSE @]
    /\ UNCHANGED <<self, s, srv, base_conn_open, wire, last, hist>>

\* line 629: the loop is over
AttemptsFailed ==
    /\ bench.unit = "reconnect"
    /\ bench.pc = "for"
    /\ ~range_has(bench.attempt, bench.reconnect_attempts)
    /\ bench' = [bench EXCEPT !.pc = "raised", !.exc = "ConnectionRefusedError"]
    /\ UNCHANGED <<self, s, srv, base_conn_open, wire, last, hist>>

ReconnectNext ==
    \/ Sleep
    \/ OpenConnection
    \/ ConnectDatabase
    \/ AttemptsFailed

\* the thread in _attempt_reconnect keeps running, and the server answers
ReconnectSpec == ReconnectInit /\ [][ReconnectNext]_vars /\ WF_vars(ReconnectNext)

\* the positions of a step in the steps taken
StepsOf(name) == {i \in 1..Len(bench.steps) : bench.steps[i] = name}

ReconnectBounded ==
    bench.unit = "reconnect" =>
        /\ Cardinality(StepsOf("sleep")) <= bench.reconnect_attempts
        /\ bench.slept = bench.reconnect_interval * Cardinality(StepsOf("sleep"))
        /\ \A i \in StepsOf("_open_connection") : bench.steps[i - 1] = "sleep"
        /\ \A i \in StepsOf("connect_database") :
               bench.steps[i - 1] = "_open_connection"
        /\ \A i \in StepsOf("sleep") :
               i < Len(bench.steps) => bench.steps[i + 1] = "_open_connection"
        /\ bench.pc = "returned" =>
               /\ bench.exc = "none"
               /\ bench.steps[Len(bench.steps)] = "connect_database"
               /\ Cardinality(StepsOf("sleep")) = bench.attempt + 1
        /\ (bench.pc = "raised" /\ bench.exc = "ConnectionRefusedError") =>
               /\ bench.attempt = bench.reconnect_attempts
               /\ Cardinality(StepsOf("sleep")) = bench.reconnect_attempts
        /\ bench.reconnect_attempts = 0 => bench.steps = <<>>

\* C24: _attempt_reconnect makes at most reconnect_attempts attempts, each a
\* sleep, then _open_connection, then connect_database; it returns right
\* after the first attempt whose two steps succeed, raises
\* ConnectionRefusedError once every attempt was refused, makes no attempt
\* when reconnect_attempts is 0, and always ends
C24_ReconnectAttemptsBounded ==
    /\ []ReconnectBounded
    /\ <>(bench.unit = "reconnect" /\ bench.pc \in {"returned", "raised"})
    /\ [][(bench.unit = "reconnect" /\ bench.pc \in {"returned", "raised"})
              => bench' = bench]_vars

\* two refused attempts, the third succeeds
C24_Witness ==
    /\ bench.unit = "reconnect"
    /\ bench.pc = "returned"
    /\ bench.reconnect_attempts = 3
    /\ bench.attempt = 2
    /\ Len(bench.steps) = 8

\* every attempt was refused
C24_WitnessRefused ==
    /\ bench.unit = "reconnect"
    /\ bench.pc = "raised"
    /\ bench.exc = "ConnectionRefusedError"
    /\ bench.reconnect_attempts = 3

-----------------------------------------------------------------------------
(* The rows of a Select statement, from the server's batches to the lists  *)
(* fetchmany and fetchall return.  The session executes a Select whose     *)
(* result set is one of SelectResults and then fetches in any sizes; the   *)
(* bench keeps the rows the server holds for the statement (as the values  *)
(* its bytes stand for) and the rows returned so far.                      *)

\* the prepareStatement reply without a redirect
Prepared ==
    [text |-> <<"{","\"">> \o STATEMENT_PREPARED \o <<"\"","}">>, params |-> NoRedirect]

\* a batch of a nullable ftUByte column: the null flags, then the values
UByteBatch(nulls, values) == Batch(Len(values), <<nulls, values>>)

\* result sets with their output columns: batches as sent, and the rows they
\* stand for.  The last one has an ftInt column and a variable text column
\* that is not nullable
SelectResults ==
    << [columns |-> <<ColA>>, batches |-> <<>>, rows |-> <<>>],
       [columns |-> <<ColA>>,
        batches |-> << UByteBatch(<<0, 1>>, <<11, 0>>), UByteBatch(<<0>>, <<13>>) >>,
        rows |-> << <<IntCell(11)>>, <<NoneCell>>, <<IntCell(13)>> >>],
       [columns |-> <<ColA>>,
        batches |-> << UByteBatch(<<0, 0, 0>>, <<1, 2, 3>>), UByteBatch(<<0>>, <<4>>),
                       UByteBatch(<<0, 0>>, <<5, 6>>) >>,
        rows |-> << <<IntCell(1)>>, <<IntCell(2)>>, <<IntCell(3)>>, <<IntCell(4)>>,
                    <<IntCell(5)>>, <<IntCell(6)>> >>],
       [columns |-> <<ColC, ColB>>,
        batches |-> << Batch(2, << LE(21, 4) \o LE(22, 4), LE(1, 4) \o LE(0, 4),
                                   <<120>> >>) >>,
        rows |-> << <<IntCell(21), StrCell(<<120>>)>>,
                    <<IntCell(22), StrCell(<<>>)>> >>] >>

\* the sizes passed to fetchmany here
FetchManySizes == {1, 2, 3}

FetchInit ==
    /\ Connected(FALSE, TRUE)
    /\ bench = [unit |-> "fetch", result |-> 0, returned |-> <<>>,
                pending |-> 0, unreturned |-> 0]

\* execute of a Select statement whose result set is SelectResults[k]
ExecuteSelect ==
    /\ bench.unit = "fetch"
    /\ srv.nextId <= MaxStmts
    /\ \E k \in 1..Len(SelectResults) :
         LET env == Env(Prepared, [qtIn |-> <<>>, qtOut |-> SelectResults[k].columns,
                                   result |-> SelectResults[k].batches])
         IN  /\ CommitCall(execute(Start, "stmt", FALSE, env), "execute", 0, NoData,
                           env, Acked)
             /\ bench' = [bench EXCEPT !.result = k, !.returned = <<>>,
                                       !.pending = 0, !.unreturned = 0]

\* the state after a fetch call that ended in machine m: its rows are added
\* to the rows returned
FetchCommit(m, op, size) ==
    /\ CommitCall(m, op, size, NoData, NoEnv, Acked)
    /\ bench' = [bench EXCEPT
           !.returned = @ \o m.ret.rows,
           !.pending = Len(self.parsed_rows),
           !.unreturned = Len(SelectResults[bench.result].rows) - Len(bench.returned)]

FetchManyRows ==
    /\ bench.unit = "fetch"
    /\ bench.result # 0
    /\ \E size \in FetchManySizes : FetchCommit(fetchmany(Start, size), "fetchmany", size)

FetchAllRows ==
    /\ bench.unit = "fetch"
    /\ bench.result # 0
    /\ FetchCommit(fetchall(Start), "fetchall", -1)

FetchOneRow ==
    /\ bench.unit = "fetch"
    /\ bench.result # 0
    /\ FetchCommit(fetchone(Start), "fetchone", 1)

FetchNext ==
    \/ ExecuteSelect
    \/ FetchManyRows
    \/ FetchOneRow
    \/ FetchAllRows

FetchSpec == FetchInit /\ [][FetchNext]_vars

SameRows(a, b) ==
    Len(a) = Len(b) /\ \A i \in 1..Len(a) : SameColumn(a[i], b[i])

\* the rows of the statement, the last call being a fetch
Expected == SelectResults[bench.result].rows
Fetched == bench.unit = "fetch" /\ last.op \in FetchOps

\* the statement has a variable text column that is not nullable
TextNotNull ==
    \E i \in 1..Len(SelectResults[bench.result].columns) :
        LET c == SelectResults[bench.result].columns[i]
        IN  c.isTrueVarChar /\ ~c.nullable

\* the rows returned are the first rows of the statement, all of them once
\* the 0-row reply was seen; fetchmany(n), n >= 2, returns
\* min(n, rows not yet returned) rows; a fetch is sent only with fewer rows
\* pending than asked for and more_to_fetch true
RowsAccounted ==
    /\ last.exc = "none"
    /\ Len(bench.returned) <= Len(Expected)
    /\ SameRows(bench.returned, Take(Expected, Len(bench.returned)))
    /\ self.more_to_fetch = "False" => Len(bench.returned) = Len(Expected)
    /\ (last.op = "fetchmany" /\ last.size >= 2) =>
           /\ last.ret.kind = "list"
           /\ Len(last.ret.rows) = Min(last.size, bench.unreturned)
    /\ last.op = "fetchall" => Len(last.ret.rows) = bench.unreturned
    /\ Sent(wire, "fetch") # {} =>
           /\ last.pre.more_to_fetch = "True"
           /\ last.size = -1 \/ bench.pending < last.size

\* C25: the rows returned by any sequence of fetchmany(n) and fetchall calls
\* on a Select statement are the rows of the server's batches in order, none
\* lost or duplicated; fetchmany(n), n >= 2, returns min(n, rows not yet
\* returned) rows; a fetch is sent only with fewer rows pending than asked
\* for and more_to_fetch true
C25_FetchReturnsEveryRow == Fetched => RowsAccounted

\* the same for statements whose variable text columns are all nullable
RowsAccountedWhenDecoded == (Fetched /\ ~TextNotNull) => RowsAccounted

\* a fetchmany(3) that sent two fetches and returned the last of the 6 rows
\* of three batches
FetchedAcrossBatches ==
    /\ Fetched
    /\ bench.result = 3
    /\ last.op = "fetchmany"
    /\ last.size = 3
    /\ Len(bench.returned) = 6
    /\ Cardinality(Sent(wire, "fetch")) = 2

\* fetchall on the statement with the text column returns one row of two
TextRowLost ==
    /\ Fetched
    /\ bench.result = 4
    /\ last.op = "fetchall"
    /\ self.more_to_fetch = "False"
    /\ Len(bench.returned) = 1

-----------------------------------------------------------------------------
(* The chunking loop of executemany: row-major batches of 1..MaxBatch rows *)
(* inserted into a table of one or of two columns, the server free to      *)
(* refuse a put.                                                           *)

\* the largest batch, in rows
MaxBatch == 5

\* the input columns of the three tables
InsertSchemas == << <<ColA>>, <<ColC, ColB>>, <<ColC>> >>

\* row r of a batch for table k
BatchRow(k, r) ==
    CASE k = 1 -> <<IntCell(r)>>
      [] k = 2 -> <<IntCell(20 + r), StrCell(<<119 + r>>)>>
      [] OTHER -> <<IntCell(300 * r)>>

InsertInit ==
    /\ Connected(FALSE, TRUE)
    /\ bench = [unit |-> "insert", table |-> 0]

\* executemany(query, rows) on an Insert statement of table k
ExecuteManyRows ==
    /\ bench.unit = "insert"
    /\ srv.nextId <= MaxStmts
    /\ \E k \in 1..Len(InsertSchemas), R \in 1..MaxBatch, acks \in PutAcks :
         LET env  == Env(Prepared, [qtIn |-> InsertSchemas[k], qtOut |-> <<>>,
                                    result |-> <<>>])
             data == Rows([r \in 1..R |-> BatchRow(k, r)])
         IN  /\ CommitCall(executemany(Start, "stmt", data, env, acks),
                           "executemany", 0, data, env, acks)
             /\ bench' = [bench EXCEPT !.table = k]

InsertNext == ExecuteManyRows

InsertSpec == InsertInit /\ [][InsertNext]_vars

\* the rows of the batch of the call, and the rows chunk j is to carry
BatchRows == last.data.seqs
ChunkRows(j) ==
    SubSeq(BatchRows, (j - 1) * self.rows_per_flush + 1,
           Min(j * self.rows_per_flush, Len(BatchRows)))

\* ceil(R / rows_per_flush)
CeilChunks ==
    (Len(BatchRows) + self.rows_per_flush - 1) \div self.rows_per_flush

\* the columns sent after the j-th put are the packed columns of ChunkRows(j)
CarriesChunk(j) ==
    LET packed == pack_columns(zip_rows(ChunkRows(j)), self.col_types,
                               self.col_sizes, self.col_nul, self.col_tvc)
    IN  /\ wire[PutAt(j)].arg = <<Len(ChunkRows(j))>>
        /\ Len(wire) >= PutAt(j) + 1 + Len(packed)
        /\ \A c \in 1..Len(packed) :
               wire[PutAt(j) + 1 + c] = Ev("sendbin", "column", packed[c])

\* the closeStatement messages sent after the last put of the call
ClosesAfterPuts ==
    {p \in Sent(wire, "closeStatement") : \A q \in Sent(wire, "put") : q < p}

InsertedRows == bench.unit = "insert" /\ last.op = "executemany"

\* C26: executemany of R >= 1 rows on an Insert statement sends
\* ceil(R / rows_per_flush) put messages, each of at most rows_per_flush
\* rows, the counts summing to R and the chunks covering the batch in row
\* order without overlap; the loop ends, and one closeStatement follows the
\* last acknowledged chunk.  A call the server refuses a chunk of stops at
\* that chunk
C26_ChunksCoverBatch ==
    InsertedRows =>
        /\ self.statement_type = "INSERT"
        /\ self.rows_per_flush = ROWS_PER_FLUSH
        /\ Cardinality(Sent(wire, "put")) <= CeilChunks
        /\ \A j \in 1..Cardinality(Sent(wire, "put")) :
               /\ Len(ChunkRows(j)) \in 1..self.rows_per_flush
               /\ CarriesChunk(j)
        /\ last.exc = "none" =>
               /\ Cardinality(Sent(wire, "put")) = CeilChunks
               /\ last.acked = CeilChunks
               /\ SumSeq([j \in 1..CeilChunks |-> wire[PutAt(j)].arg[1]])
                      = Len(BatchRows)
               /\ Cardinality(ClosesAfterPuts) = 1
               /\ self.cols = [c \in 1..Len(InsertSchemas[bench.table]) |-> <<>>]
        /\ last.exc # "none" => ClosesAfterPuts = {}

\* 5 rows went out in 3 chunks of 2, 2 and 1 rows
C26_Witness ==
    /\ InsertedRows
    /\ last.exc = "none"
    /\ Len(BatchRows) = 5
    /\ Cardinality(Sent(wire, "put")) = 3
    /\ wire[PutAt(3)].arg = <<1>>
    /\ bench.table = 2

-----------------------------------------------------------------------------
(* The length of a packed column and the staging buffer.                   *)

\* the payload bytes of the column on the bench: the encoded text of a
\* variable text column, rows times the byte width otherwise
PayloadBytes ==
    IF bench.tvc THEN SumSeq([i \in 1..Len(bench.col) |-> Len(RowBytes(bench.col[i]))])
    ELSE Len(bench.col) * bench.size

\* C27: the bytes _pack_column returns for n rows are n (when nullable)
\* + 4n (when variable text) + the payload bytes long, as many as were
\* written into the staging buffer, and for n <= ROWS_PER_FLUSH no more than
\* the buffer holds when they are written, the buffer of a variable text
\* column being grown to payload + 5n bytes when that is more than it has
C27_PackedLengthWithinBuffer ==
    (bench.unit = "codec" /\ bench.stage # "values") =>
        /\ Len(bench.packed) =
               (IF bench.nullable THEN Len(bench.col) ELSE 0)
               + (IF bench.tvc THEN 4 * Len(bench.col) ELSE 0)
               + PayloadBytes
        /\ bench.written = Len(bench.packed)
        /\ Len(bench.col) <= ROWS_PER_FLUSH => Len(bench.packed) <= bench.buf_len
        /\ (bench.tvc /\ PayloadBytes + 5 * Len(bench.col)
                             > buf_map_len(bench.size, bench.nullable)) =>
               bench.buf_len = PayloadBytes + 5 * Len(bench.col)

\* two rows of 10 bytes each, nullable: 30 bytes in a buffer grown from
\* 18 to 30
C27_Witness ==
    /\ bench.unit = "codec"
    /\ bench.stage = "packed"
    /\ bench.col_type = "ftBlob"
    /\ bench.nullable
    /\ Len(bench.col) = ROWS_PER_FLUSH
    /\ Len(bench.packed) = 30
    /\ bench.buf_len = 30

-----------------------------------------------------------------------------
(* The statement a put belongs to.                                         *)

\* an executemany call that sent a put
PutSent == last.op = "executemany" /\ SentMsg("put")

\* the types, sizes and flush size are those of the input columns the call's
\* statement reported
InsertSchemaOfCall ==
    /\ last.env.qtIn # <<>>
    /\ SchemaFrom(last.env.qtIn)
    /\ self.col_types = [i \in 1..Len(last.env.qtIn) |-> last.env.qtIn[i].type[1]]
    /\ self.col_sizes = [i \in 1..Len(last.env.qtIn) |-> last.env.qtIn[i].type[2]]
    /\ self.rows_per_flush = ROWS_PER_FLUSH

\* no closeStatement went out between the execute message of the call and
\* the put at position p
OpenAtPut(p) ==
    \A e \in Sent(wire, "execute"), c \in Sent(wire, "closeStatement") :
        ~(e < c /\ c < p)

\* C28: a put is sent only while the statement the call executed is open and
\* an Insert statement, and its data is packed with the schema and the flush
\* size of that statement: executemany with data sends no put for a
\* statement classified Select or DML
C28_PutOnlyForOpenInsert ==
    PutSent =>
        /\ self.statement_type = "INSERT"
        /\ InsertSchemaOfCall
        /\ \A p \in Sent(wire, "put") : OpenAtPut(p)

\* the same for the statements classified Insert
InsertPutsUseOwnSchema ==
    (PutSent /\ self.statement_type = "INSERT") =>
        /\ InsertSchemaOfCall
        /\ \A p \in Sent(wire, "put") : OpenAtPut(p)

\* a put for a Select or DML statement takes an Insert statement executed
\* earlier on the session
StalePutNeedsEarlierInsert ==
    (PutSent /\ self.statement_type # "INSERT") =>
        /\ last.pre.rows_per_flush = ROWS_PER_FLUSH
        /\ self.rows_per_flush = ROWS_PER_FLUSH

\* a put sent for a statement classified DML, after its closeStatement
PutForClosedDml ==
    /\ PutSent
    /\ self.statement_type = "DML"
    /\ \E p \in Sent(wire, "put") : ~OpenAtPut(p)

\* a put sent for a Select statement, packed with the types of an earlier
\* Insert statement
PutForSelect ==
    /\ PutSent
    /\ self.statement_type = "SELECT"
    /\ last.env.qtOut # <<>>

-----------------------------------------------------------------------------
(* closeStatement, once for a statement.                                   *)

\* the messages of the call that open a statement (getStatementId follows
\* open_statement = True, lines 637-641) or close one
OpensOrCloses == Sent(wire, "getStatementId") \cup Sent(wire, "closeStatement")

\* open_statement when the message at position c of the call is sent
OpenWhenSent(c) ==
    LET before == {q \in OpensOrCloses : q < c}
    IN  IF before = {} THEN last.pre.open_statement
        ELSE wire[CHOOSE q \in before : \A r \in before : r <= q].t = "getStatementId"

\* every closeStatement of the call is sent with open_statement true
ClosesOnlyOpen == \A c \in Sent(wire, "closeStatement") : OpenWhenSent(c)

\* C29: over execute, executemany, fetch* and close calls a closeStatement
\* is sent only while open_statement is true, and so at most one for every
\* statement id the session obtains
C29_OneCloseStatementPerStatement ==
    last.op \in ExecOps \cup FetchOps \cup {"close"} => ClosesOnlyOpen

\* the same for execute, the fetch calls, and executemany on a statement
\* that is not DML
ClosesOnlyOpenOutsideClose ==
    (\/ last.op \in {"execute"} \cup FetchOps
     \/ last.op = "executemany" /\ self.statement_type # "DML") => ClosesOnlyOpen

\* close() after a DML statement: a second closeStatement for its id
CloseAfterDml ==
    /\ last.op = "close"
    /\ last.pre.statement_type = "DML"
    /\ ~last.pre.open_statement
    /\ Sent(wire, "closeStatement") # {}

\* executemany with data on a DML statement: two closeStatement messages
\* after one getStatementId
DmlClosedTwice ==
    /\ last.op = "executemany"
    /\ self.statement_type = "DML"
    /\ ~last.pre.open_statement
    /\ Cardinality(Sent(wire, "closeStatement")) = 2

-----------------------------------------------------------------------------
(* Several connections of one process.  Connection.base_conn_open (line    *)
(* 533) is a class attribute, a list every Connection object shares: the   *)
(* bench holds its one element and the connections made by connect() and   *)
(* by cursor(), each with its own socket and server session.               *)

\* the number of connections of the process
MaxConns == 3

\* Connection.__init__ and connect_database: the new object, its socket and
\* the server's session; parent is the connection cursor() was called on
\* (0: connect())
NewConnection(base_connection, parent) ==
    [self |-> InitSelf(FALSE, base_connection),
     s |-> [open |-> TRUE, ip |-> 1, port |-> 5000, peer |-> <<1, 5000>>,
            lost |-> "no"],
     srv |-> [nextId |-> 1, kind |-> "none", batches |-> <<>>],
     parent |-> parent]

\* the machine at the start of a call on connection i
StartOn(i) ==
    [self |-> bench.conns[i].self, s |-> bench.conns[i].s, srv |-> bench.conns[i].srv,
     bco |-> bench.base_conn_open, wire |-> <<>>, exc |-> "none", msg |-> "",
     ret |-> NoRet, fetched |-> 0, acked |-> 0, hist |-> hist]

\* the state after a call on connection i that ended in machine m
CommitOn(i, m, op) ==
    /\ bench' = [bench EXCEPT !.conns[i].self = m.self, !.conns[i].s = m.s,
                              !.conns[i].srv = m.srv, !.base_conn_open = m.bco,
                              !.op = op, !.on = i, !.exc = m.exc, !.msg = m.msg]
    /\ UNCHANGED <<self, s, srv, base_conn_open, wire, last, hist>>

\* Connection.commit
commit(m) == _verify_open(m)

ConnectionsInit ==
    /\ Connected(FALSE, TRUE)
    /\ bench = [unit |-> "connections", base_conn_open |-> FALSE, conns |-> <<>>,
                op |-> "none", on |-> 0, exc |-> "none", msg |-> ""]

\* connect(): a base connection; line 586 sets the shared element
ConnectBase ==
    /\ bench.unit = "connections"
    /\ Len(bench.conns) < MaxConns
    /\ bench' = [bench EXCEPT !.conns = Append(@, NewConnection(TRUE, 0)),
                              !.base_conn_open = TRUE,
                              !.op = "connect", !.on = Len(bench.conns) + 1,
                              !.exc = "none", !.msg = ""]
    /\ UNCHANGED <<self, s, srv, base_conn_open, wire, last, hist>>

\* Connection.cursor on base connection p: a connection with
\* base_connection = False
OpenCursor ==
    /\ bench.unit = "connections"
    /\ Len(bench.conns) < MaxConns
    /\ \E p \in 1..Len(bench.conns) :
         /\ bench.conns[p].parent = 0
         /\ bench' = [bench EXCEPT !.conns = Append(@, NewConnection(FALSE, p)),
                                   !.op = "cursor", !.on = Len(bench.conns) + 1,
                                   !.exc = "none", !.msg = ""]
    /\ UNCHANGED <<self, s, srv, base_conn_open, wire, last, hist>>

\* commit() on connection i: _verify_open and nothing else
CommitOnConnection ==
    /\ bench.unit = "connections"
    /\ \E i \in 1..Len(bench.conns) : CommitOn(i, commit(StartOn(i)), "commit")

\* execute of an Insert statement on connection i (its first)
ExecuteOnConnection ==
    /\ bench.unit = "connections"
    /\ \E i \in 1..Len(bench.conns) :
         /\ bench.conns[i].srv.nextId = 1
         /\ CommitOn(i, execute(StartOn(i), "stmt", FALSE,
                                Env(Prepared, [qtIn |-> <<ColA>>, qtOut |-> <<>>,
                                               result |-> <<>>])),
                     "execute")

\* close_connection() on connection i
CloseOnConnection ==
    /\ bench.unit = "connections"
    /\ \E i \in 1..Len(bench.conns) :
         CommitOn(i, close_connection(StartOn(i)), "close_connection")

ConnectionsNext ==
    \/ ConnectBase
    \/ OpenCursor
    \/ CommitOnConnection
    \/ ExecuteOnConnection
    \/ CloseOnConnection

ConnectionsSpec == ConnectionsInit /\ [][ConnectionsNext]_vars

\* the base connection of connection i, and whether a connection was closed
BaseOf(i) == IF bench.conns[i].parent = 0 THEN i ELSE bench.conns[i].parent
WasClosed(i) == bench.conns[i].self.closed

\* the last call was an operation that starts with _verify_open
Verified == bench.unit = "connections" /\ bench.op \in {"commit", "execute"}

\* C30: _verify_open accepts an operation on a connection exactly when
\* neither the connection nor the base connection it was created from has
\* been closed: closing another base connection does not make it raise
\* 'Connection has been closed', and closing a cursor does not make a cursor
\* of a closed base connection usable
C30_VerifyOpenPerConnection ==
    Verified =>
        /\ bench.msg = "Connection has been closed" => WasClosed(BaseOf(bench.on))
        /\ (WasClosed(bench.on) \/ WasClosed(BaseOf(bench.on))) =>
               bench.msg \in {"Connection has been closed", "Cursor has been closed"}

\* a connection that was closed itself is refused whatever the others did
ClosedConnectionRefused ==
    (Verified /\ WasClosed(bench.on)) =>
        bench.msg \in {"Connection has been closed", "Cursor has been closed"}

\* an open base connection is refused after another base connection was
\* closed
OtherBaseClosed ==
    /\ Verified
    /\ bench.msg = "Connection has been closed"
    /\ bench.conns[bench.on].parent = 0
    /\ ~WasClosed(bench.on)
    /\ \E a \in 1..Len(bench.conns) :
           a # bench.on /\ bench.conns[a].parent = 0 /\ WasClosed(a)

\* a cursor of a closed base connection is accepted after another cursor
\* was closed
CursorOfClosedBaseAccepted ==
    /\ Verified
    /\ bench.exc = "none"
    /\ bench.conns[bench.on].parent # 0
    /\ WasClosed(BaseOf(bench.on))
    /\ \E c \in 1..Len(bench.conns) :
           c # bench.on /\ bench.conns[c].parent # 0 /\ WasClosed(c)

-----------------------------------------------------------------------------
(* The frame of a control message: _send_string (lines 590-597) sends the  *)
(* header generate_message_header(len(json_cmd)) and then                  *)
(* json_cmd.encode('utf8').  A text is the sequence of its code points.    *)
(* The server reads the header and then as many bytes as it announces.     *)

\* the longest text a caller passes, in characters
MaxText == 2

\* the characters of the callers' texts: a, the double quote, e with acute
\* (2 bytes in UTF-8) and the euro sign (3 bytes)
TextChars == {97, 34, 233, 8364}

\* one hexadecimal digit, lower case
HexDigit(d) == IF d < 10 THEN 48 + d ELSE 87 + d

\* json.dumps of the characters of a str (ensure_ascii): the quote and the
\* backslash get a backslash, a character outside ASCII becomes \uXXXX
json_escaped(cp) ==
    IF cp \in {34, 92} THEN <<92, cp>>
    ELSE IF cp < 128 THEN <<cp>>
    ELSE <<92, 117, HexDigit(cp \div 4096), HexDigit((cp \div 256) % 16),
           HexDigit((cp \div 16) % 16), HexDigit(cp % 16)>>

RECURSIVE json_dumps_str(_)
json_dumps_str(cps) ==
    IF cps = <<>> THEN <<>> ELSE json_escaped(Head(cps)) \o json_dumps_str(Tail(cps))

\* str(n) of an int n >= 0
RECURSIVE Decimal(_)
Decimal(n) == IF n < 10 THEN <<48 + n>> ELSE Decimal(n \div 10) \o <<48 + (n % 10)>>

\* line 605: the connectDatabase message, an f-string
connect_database_cmd(username, password, database, service) ==
    <<123, 34, 117, 115, 101, 114, 110, 97, 109, 101, 34, 58, 34>> \o username
    \o <<34, 44, 32, 34, 112, 97, 115, 115, 119, 111, 114, 100, 34, 58, 34>> \o password
    \o <<34, 44, 32, 34, 99, 111, 110, 110, 101, 99, 116, 68, 97, 116, 97, 98, 97,
         115, 101, 34, 58, 34>> \o database
    \o <<34, 44, 32, 34, 115, 101, 114, 118, 105, 99, 101, 34, 58, 34>> \o service
    \o <<34, 125>>

\* line 645: json.dumps({"prepareStatement": stmt, "chunkSize": DEFAULT_CHUNKSIZE})
prepare_statement_cmd(stmt) ==
    <<123, 34, 112, 114, 101, 112, 97, 114, 101, 83, 116, 97, 116, 101, 109, 101,
      110, 116, 34, 58, 32, 34>> \o json_dumps_str(stmt)
    \o <<34, 44, 32, 34, 99, 104, 117, 110, 107, 83, 105, 122, 101, 34, 58, 32>>
    \o Decimal(DEFAULT_CHUNKSIZE) \o <<125>>

\* line 833: f'{{"put":{capacity}}}'
put_cmd(capacity) == <<123, 34, 112, 117, 116, 34, 58>> \o Decimal(capacity) \o <<125>>

\* line 715: '{"fetch" : "fetch"}'
fetch_cmd ==
    <<123, 34, 102, 101, 116, 99, 104, 34, 32, 58, 32, 34, 102, 101, 116, 99, 104,
      34, 125>>

\* line 594: the bytes _send_string hands to send; len(json_cmd) counts the
\* characters of the str
frame(json_cmd) ==
    generate_message_header(Int64(Len(json_cmd)), TRUE) \o encode_utf8(json_cmd)

\* the texts of up to MaxText characters
Texts == UNION { [1..n -> TextChars] : n \in 0..MaxText }

FrameInit ==
    /\ Connected(FALSE, TRUE)
    /\ \E json_cmd \in
            { connect_database_cmd(u, p, <<109, 97, 115, 116, 101, 114>>,
                                   <<115, 113, 114, 101, 97, 109>>) :
                  u \in Texts, p \in Texts }
            \cup { prepare_statement_cmd(stmt) : stmt \in Texts }
            \cup { put_cmd(capacity) : capacity \in 1..ROWS_PER_FLUSH }
            \cup { fetch_cmd } :
           bench = [unit |-> "frame", stage |-> "text", json_cmd |-> json_cmd,
                    sent |-> <<>>, read |-> <<>>, left |-> <<>>]

\* _send_string(json_cmd)
SendString ==
    /\ bench.unit = "frame"
    /\ bench.stage = "text"
    /\ bench' = [bench EXCEPT !.stage = "sent", !.sent = frame(bench.json_cmd)]
    /\ UNCHANGED <<self, s, srv, base_conn_open, wire, last, hist>>

\* the server reads the header and then the bytes it announces (lengths
\* below 2^16 here); left is what it has not read of the message
ServerReads ==
    /\ bench.unit = "frame"
    /\ bench.stage = "sent"
    /\ LET n == message_len(SubSeq(bench.sent, 1, 10))[1]
       IN  bench' = [bench EXCEPT !.stage = "read",
                         !.read = Slice(bench.sent, 10, 10 + n),
                         !.left = Slice(bench.sent, 10 + n, Len(bench.sent))]
    /\ UNCHANGED <<self, s, srv, base_conn_open, wire, last, hist>>

FrameNext ==
    \/ SendString
    \/ ServerReads

FrameSpec == FrameInit /\ [][FrameNext]_vars

\* the header announces the bytes that follow it, and they are the UTF-8
\* encoding of the message
HeaderCountsBytes ==
    /\ Len(bench.sent) >= 10
    /\ message_len(SubSeq(bench.sent, 1, 10)) = Int64(Len(bench.sent) - 10)
    /\ Slice(bench.sent, 10, Len(bench.sent)) = encode_utf8(bench.json_cmd)
    /\ bench.stage = "read" =>
           (bench.read = encode_utf8(bench.json_cmd) /\ bench.left = <<>>)

FrameSent == bench.unit = "frame" /\ bench.stage # "text"

\* the message has a character outside ASCII
MultiByte == \E i \in 1..Len(bench.json_cmd) : bench.json_cmd[i] >= 128

\* C31: the length field of the header of every control message _send_string
\* sends is the number of bytes of the UTF-8 encoded text that follows it,
\* also for texts with characters of more than one byte
C31_HeaderLengthIsByteCount == FrameSent => HeaderCountsBytes

\* the same for the messages that are ASCII when they reach _send_string:
\* every message but connectDatabase, the statement text being escaped by
\* json.dumps
AsciiHeaderCountsBytes == (FrameSent /\ ~MultiByte) => HeaderCountsBytes

\* a statement text with a 3-byte character was sent with the right length
EscapedStatementSent ==
    /\ FrameSent
    /\ ~MultiByte
    /\ bench.json_cmd = prepare_statement_cmd(<<8364>>)

\* a connectDatabase message whose user name has a 2-byte character: the
\* server is left with the last byte of the message unread
ConnectCutShort ==
    /\ FrameSent
    /\ bench.stage = "read"
    /\ MultiByte
    /\ bench.left = <<125>>

-----------------------------------------------------------------------------
(* fetchone, to the end of the result set and beyond.                      *)

\* the last call was fetchone on a statement whose columns decode
FetchOneCalled == Fetched /\ last.op = "fetchone" /\ ~TextNotNull

\* fetchone returned the next row of the statement
NextRowReturned ==
    /\ last.exc = "none"
    /\ last.ret.kind = "row"
    /\ SameColumn(last.ret.rows[1], Expected[Len(bench.returned)])

\* C32: fetchone returns one row, the next, while rows of the statement
\* remain, and None on every call after the last row until the next execute
C32_FetchOneRowThenNone ==
    FetchOneCalled =>
        IF bench.unreturned > 0 THEN NextRowReturned
        ELSE last.exc = "none" /\ last.ret.kind = "None"

\* what fetchone does return: the next row while rows remain, None on the
\* call that gets the 0-row reply, and an empty list on the calls after it
FetchOneNoneThenList ==
    FetchOneCalled =>
        IF bench.unreturned > 0 THEN NextRowReturned
        ELSE /\ last.exc = "none"
             /\ last.ret.rows = <<>>
             /\ last.ret.kind =
                    (IF last.pre.more_to_fetch = "True" THEN "None" ELSE "list")

\* the second fetchone after the last row returns an empty list
FetchOneReturnsList ==
    /\ FetchOneCalled
    /\ bench.result = 2
    /\ Len(bench.returned) = 3
    /\ last.pre.more_to_fetch = "False"
    /\ last.ret.kind = "list"

\* fetchone returns the third row of the statement
FetchOneReturnsRow ==
    /\ FetchOneCalled
    /\ bench.result = 2
    /\ Len(bench.returned) = 3
    /\ last.ret.kind = "row"

====
